---- MODULE Spec2Model ----
(***************************************************************************)
(* Data-access core of the agentkit backend: the asyncpg connection pool   *)
(* singleton, the server-side streaming cursor, the PostgresService        *)
(* operations, the batched bulk executor, the Redis cache service and the  *)
(* conversation memory of the chat agent.                                  *)
(*                                                                         *)
(* Spec       one database request (a PostgresService operation, the       *)
(*            server_cursor generator under an arbitrary driver,           *)
(*            fetch_large_dataset or execute_in_batches).                  *)
(* FairSpec   Spec with the event loop's progress.                        *)
(* SpecPool   tasks of one event loop calling get_pool and close_pool,     *)
(*            interleaved at their awaits.                                 *)
(* SpecCache  one client of AsyncRedisService calling its operations on a  *)
(*            Redis keyspace whose keys expire as time passes.             *)
(* SpecMemory callers of meta_agent.get_conv_token_buffer_memory           *)
(*            materializing prefixes of one conversation.                  *)
(* SpecReduce one reduction of a conversation history: a call of           *)
(*            dynamic_memory_reduction, or a save_context of               *)
(*            OptimizedTokenBufferMemory.                                  *)
(* SpecExtend    get_conv_token_buffer_memory on one conversation id whose *)
(*               message list grows from call to call.                     *)
(* SpecTokens    get_token_length on one text, with or without tiktoken.   *)
(* SpecLevels    set, multi_set, get and multi_get of a service configured *)
(*               with any compression level.                               *)
(* SpecDecorated calls of a function decorated with async_cache.           *)
(* SpecPersist   an OptimizedTokenBufferMemory with a cache service: its   *)
(*               save_context calls and flushes as the clock advances.     *)
(* SpecBatchSave calls of batch_save_context on one Redis keyspace.        *)
(***************************************************************************)
EXTENDS Integers, Sequences, FiniteSets, TLC

\* ------------------------------------------------------------------ bounds
MaxRows == 4
MaxBatch == 3
MaxBody == 2
MaxItems == 4
NTasks == 2
MaxCalls == 3
MaxOps == 2
MaxElapse == 1
ScanCount == 2
MaxMessages == 3
MaxMaterialized == 3
MaxFree == 3
MaxPairs == 7

\* ------------------------------------------------------------------ state
VARIABLES
    op,           \* the operation this request runs
    pc,           \* where the running coroutine / generator stands
    table,        \* rows the query returns, in the order of a plain fetch
    batch_size,   \* server_cursor / fetch_large_dataset batch_size
    cursorPos,    \* rows the server-side cursor has already handed out
    batches,      \* batches the generator has yielded to its driver, in order
    rowsOut,      \* rows the operation has delivered to its caller, in order
    conn,         \* "none" | "held" | "released": the pool connection
    tx,           \* "none" | "started" | "committed" | "rolledback" | "failed"
    exc,          \* the exception in flight in the coroutine, or "none"
    raised,       \* every exception raised during the request, in order
    outcome,      \* what the caller observes at the end ("pending" until then)
    events,       \* calls made on pool, connection and transaction, in order
    body,         \* statements the caller's body still has to run (transaction)
    db,           \* rows committed in the database by this request, in order
    pending,      \* rows written inside the open transaction, not yet committed
    items,        \* execute_in_batches: the items to process
    batch_i,      \* execute_in_batches: i, start of the current batch (0-based)
    batch_k,      \* execute_in_batches: items of this batch already run
    processed_items,  \* execute_in_batches: the running count
    progress,     \* calls on_batch_complete has received, in order
    _pool,        \* asyncpg_pool._pool: 0 is None, otherwise the pool's id
    pools,        \* state of every pool created so far: pool id -> state
    closeCalls,   \* how often close() was called on each pool: id -> count
    task,         \* what each task is doing in get_pool / close_pool
    closing,      \* the pool each task suspended in close_pool is closing
    calls,        \* how many calls each task has made
    returns,      \* results of get_pool: <<task, pool, pool state at return>>
    redis,        \* the cache's Redis keyspace: key name -> [value, exp]
    clock,        \* seconds elapsed on the Redis server's clock
    elapsed,      \* how often time has been let pass
    ncalls,       \* cache service calls made so far
    category,     \* the CacheCategory the caller passes in this run
    key_prefix,   \* the prefix argument the caller passes in this run
    call,         \* the cache service call made last
    result,       \* what that call returned or raised
    cpc,          \* where delete_pattern stands ("idle" outside it)
    cursor,       \* delete_pattern: the SCAN cursor
    keys,         \* delete_pattern: the key names collected so far
    _memory_cache,  \* meta_agent._memory_cache: <<id, count>> -> memory object
    memories,     \* the memory objects created so far: object id -> object
    conversation, \* the messages of the conversation, oldest first
    mcall,        \* the last get_conv_token_buffer_memory call
    memory,       \* the memory object that call returned (0 before any call)
    processed,    \* the messages of each _process_messages call it made
    materialized, \* get_conv_token_buffer_memory calls made so far
    chat_memory,  \* memory.chat_memory.messages of the memory being reduced
    max_token_limit,  \* the token budget of that memory
    rcall,        \* the reduction call made, with the messages it counted
    tokens_saved, \* what it returned or added to stats["tokens_saved"]
    settings,     \* AsyncRedisService.settings (CacheSettings)
    pending_operations,  \* OptimizedTokenBufferMemory.pending_operations
    stats,        \* OptimizedTokenBufferMemory.stats
    history       \* what the callers did and saw so far, oldest first

reqVars == <<op, pc, table, batch_size, cursorPos, batches, rowsOut, conn, tx,
             exc, raised, outcome, events, body, db, pending>>
batVars == <<items, batch_i, batch_k, processed_items, progress>>
poolVars == <<_pool, pools, closeCalls, task, closing, calls, returns>>
cacheVars == <<redis, clock, elapsed, ncalls, category, key_prefix, call,
               result, cpc, cursor, keys>>
memVars == <<_memory_cache, memories, conversation, mcall, memory, processed,
             materialized>>
redVars == <<chat_memory, max_token_limit, rcall, tokens_saved>>
svcVars == <<settings, pending_operations, stats, history>>
vars == <<reqVars, batVars, poolVars, cacheVars, memVars, redVars, svcVars>>

\* What a step of one subsystem leaves alone.
nonReqVars == <<poolVars, cacheVars, memVars, redVars, svcVars>>
nonPoolVars == <<reqVars, batVars, cacheVars, memVars, redVars, svcVars>>
nonCacheVars == <<reqVars, batVars, poolVars, memVars, redVars, svcVars>>
nonMemVars == <<reqVars, batVars, poolVars, cacheVars, redVars, svcVars>>
nonRedVars == <<reqVars, batVars, poolVars, cacheVars, memVars, svcVars>>

Tasks == 1..NTasks

Min(a, b) == IF a < b THEN a ELSE b

Rows(n) == [i \in 1..n |-> i]

\* How often a call appears in the event log.
Count(e) == Cardinality({i \in 1..Len(events) : events[i] = e})

\* Position of the first occurrence of a call in the event log (0 if absent).
FirstAt(e) ==
    IF Count(e) = 0 THEN 0
    ELSE CHOOSE i \in 1..Len(events) :
            /\ events[i] = e
            /\ \A j \in 1..(i - 1) : events[j] # e

RECURSIVE Flatten(_)
Flatten(bs) == IF bs = <<>> THEN <<>> ELSE Head(bs) \o Flatten(Tail(bs))

\* The pool module as the request specification sees it: get_pool() hands the
\* request its pool, and no other task touches the singleton meanwhile.
PoolIdle ==
    /\ _pool = 0
    /\ pools = <<>>
    /\ closeCalls = <<>>
    /\ task = [t \in Tasks |-> "idle"]
    /\ closing = [t \in Tasks |-> 0]
    /\ calls = [t \in Tasks |-> 0]
    /\ returns = {}

\* The cache service as the other specifications see it: no call is made
\* and the keyspace stays empty.
CacheIdle ==
    /\ redis = [name \in {} |-> 0]
    /\ clock = 0
    /\ elapsed = 0
    /\ ncalls = 0
    /\ category = "user"
    /\ key_prefix = <<>>
    /\ call = [op |-> "none"]
    /\ result = [status |-> "none"]
    /\ cpc = "idle"
    /\ cursor = 0
    /\ keys = <<>>

\* The snapshot index of meta_agent as the other specifications see it: no
\* conversation is materialized.
MemoryIdle ==
    /\ _memory_cache = [k \in {} |-> 0]
    /\ memories = <<>>
    /\ conversation = <<>>
    /\ mcall = [n |-> 0, conversation_id |-> ""]
    /\ memory = 0
    /\ processed = <<>>
    /\ materialized = 0

\* The memory reduction as the other specifications see it: no history is
\* reduced.
ReduceIdle ==
    /\ chat_memory = <<>>
    /\ max_token_limit = 0
    /\ rcall = [op |-> "none"]
    /\ tokens_saved = 0

\* async_redis_service.py lines 62-65 and 80: self.settings = CacheSettings()
\* with its defaults, the threshold in bytes.
compression_threshold == 1024
compression_level == 6

CacheSettings ==
    [compression_threshold |-> compression_threshold,
     compression_level |-> compression_level]

\* The service with the default settings and a memory that buffers nothing,
\* as the other specifications see them.
ServiceIdle ==
    /\ settings = CacheSettings
    /\ pending_operations = <<>>
    /\ stats = [batch_operations |-> 0]
    /\ history = <<>>

\* ------------------------------------------------------------ request init
CursorOps == {"server_cursor", "fetch_large_dataset"}
ServiceOps == {"execute", "fetch", "fetch_one", "fetch_val"}
TransactionOps == {"transaction", "transaction_example"}
BatchOps == {"execute_in_batches"}
ReadOps == CursorOps \cup {"fetch", "fetch_one", "fetch_val"}

\* One request: the operation, the rows its query returns (read operations),
\* the items to load (execute_in_batches), the statements of the body
\* (transaction) and the batch size (cursor and batch operations).
Init ==
    /\ op \in CursorOps \cup ServiceOps \cup TransactionOps \cup BatchOps
    /\ pc = "call"
    /\ \E n \in 0..MaxRows : table = IF op \in ReadOps THEN Rows(n) ELSE <<>>
    /\ \E m \in 0..MaxItems : items = IF op \in BatchOps THEN Rows(m) ELSE <<>>
    /\ \E l \in 1..MaxBody :
        body = IF op \in TransactionOps THEN Rows(l) ELSE <<>>
    /\ \E b \in 1..MaxBatch :
        batch_size = IF op \in CursorOps \cup BatchOps THEN b ELSE 1
    /\ cursorPos = 0
    /\ batches = <<>>
    /\ rowsOut = <<>>
    /\ conn = "none"
    /\ tx = "none"
    /\ exc = "none"
    /\ raised = <<>>
    /\ outcome = "pending"
    /\ events = <<>>
    /\ db = <<>>
    /\ pending = <<>>
    /\ batch_i = 0
    /\ batch_k = 0
    /\ processed_items = 0
    /\ progress = <<>>
    /\ PoolIdle
    /\ CacheIdle
    /\ MemoryIdle
    /\ ReduceIdle
    /\ ServiceIdle

\* ----------------------------------------------------------- server_cursor
\* line 50: pool = await get_pool()
sc_get_pool ==
    /\ op = "server_cursor" /\ pc = "call"
    /\ pc' = "acquire"
    /\ UNCHANGED <<op, nonReqVars, raised, table, batch_size, cursorPos,
                   batches, rowsOut, conn, tx, exc, outcome, events, body,
                   db, pending, batVars>>

\* line 51: conn = await pool.acquire(timeout=timeout), outside the try block.
sc_acquire_next_retries(ok) == IF ok THEN "tr_start" ELSE "acquire"

sc_acquire_next(ok) == IF ok THEN "tr_start" ELSE "done"

sc_acquire ==
    /\ op = "server_cursor" /\ pc = "acquire"
    /\ \E ok \in BOOLEAN :
        /\ events' = Append(events, "acquire")
        /\ conn' = IF ok THEN "held" ELSE conn
        /\ pc' = sc_acquire_next(ok)
        /\ outcome' = IF ok THEN outcome ELSE "PoolTimeout"
        /\ raised' = IF ok THEN raised ELSE Append(raised, "PoolTimeout")
    /\ UNCHANGED <<op, table, batch_size, cursorPos, batches, rowsOut, tx,
                   exc, body, db, nonReqVars, pending, batVars>>

\* lines 54-55: tr = conn.transaction(); await tr.start()
sc_tr_start ==
    /\ op = "server_cursor" /\ pc = "tr_start"
    /\ events' = Append(events, "tr.start")
    /\ \E ok \in BOOLEAN :
        IF ok
        THEN /\ tx' = "started"
             /\ pc' = "declare"
             /\ exc' = exc
             /\ raised' = raised
        ELSE /\ tx' = tx
             /\ pc' = "except"
             /\ exc' = "StartError"
             /\ raised' = Append(raised, "StartError")
    /\ UNCHANGED <<op, table, batch_size, cursorPos, batches, rowsOut, conn,
                   outcome, body, db, nonReqVars, pending, batVars>>

\* lines 58-62: DECLARE cursor_name CURSOR FOR query
sc_declare ==
    /\ op = "server_cursor" /\ pc = "declare"
    /\ events' = Append(events, "DECLARE")
    /\ \E ok \in BOOLEAN :
        IF ok
        THEN /\ pc' = "fetch"
             /\ exc' = exc
             /\ raised' = raised
        ELSE /\ pc' = "except"
             /\ exc' = "DeclareError"
             /\ raised' = Append(raised, "DeclareError")
    /\ UNCHANGED <<op, table, batch_size, cursorPos, batches, rowsOut, conn,
                   tx, outcome, body, db, nonReqVars, pending, batVars>>

\* line 66: what FETCH batch_size FROM cursor returns at cursor position pos.
FetchBatch(rows, pos, size) == SubSeq(rows, pos + 1, Min(pos + size, Len(rows)))

\* lines 65-69: one turn of the loop: FETCH, break on empty batch, else yield.
sc_fetch ==
    /\ op = "server_cursor" /\ pc = "fetch"
    /\ events' = Append(events, "FETCH")
    /\ \E ok \in BOOLEAN :
        IF ok
        THEN LET batch == FetchBatch(table, cursorPos, batch_size) IN
             /\ cursorPos' = cursorPos + Len(batch)
             /\ exc' = exc
             /\ raised' = raised
             /\ IF batch = <<>>
                THEN /\ pc' = "commit"
                     /\ batches' = batches
                ELSE /\ pc' = "yield"
                     /\ batches' = Append(batches, batch)
        ELSE /\ pc' = "except"
             /\ exc' = "FetchError"
             /\ raised' = Append(raised, "FetchError")
             /\ UNCHANGED <<cursorPos, batches>>
    /\ UNCHANGED <<op, table, batch_size, rowsOut, conn, tx, outcome, body,
                   db, nonReqVars, pending, batVars>>

\* line 69: the driver asks for the next batch; the loop goes round.
sc_resume ==
    /\ op = "server_cursor" /\ pc = "yield"
    /\ pc' = "fetch"
    /\ UNCHANGED <<op, raised, table, batch_size, cursorPos, batches,
                   rowsOut, conn, tx, exc, outcome, events, body, db,
                   nonReqVars, pending, batVars>>

\* line 69: the driver throws an Exception into the suspended generator.
sc_throw ==
    /\ op = "server_cursor" /\ pc = "yield"
    /\ pc' = "except"
    /\ exc' = "ConsumerError"
    /\ raised' = Append(raised, "ConsumerError")
    /\ UNCHANGED <<op, table, batch_size, cursorPos, batches, rowsOut, conn,
                   tx, outcome, events, body, db, nonReqVars, pending, batVars>>

\* Where a BaseException that is no Exception (GeneratorExit, CancelledError)
\* lands when raised inside the try block: `except Exception` (line 73) does
\* not match it, so control goes to the finally clause (line 81).
sc_base_exception_target_leaves == "done"

sc_base_exception_target == "finally"

\* line 69: the driver stops early; the generator is closed (aclose, or its
\* finalizer), which raises GeneratorExit at the yield.
sc_close ==
    /\ op = "server_cursor" /\ pc = "yield"
    /\ pc' = sc_base_exception_target
    /\ exc' = "GeneratorExit"
    /\ raised' = Append(raised, "GeneratorExit")
    /\ UNCHANGED <<op, table, batch_size, cursorPos, batches, rowsOut, conn,
                   tx, outcome, events, body, db, nonReqVars, pending, batVars>>

\* The consuming task is cancelled while the generator is suspended at the
\* yield or waits in one of the awaits of the try block: CancelledError.
sc_cancel ==
    /\ op = "server_cursor"
    /\ pc \in {"tr_start", "declare", "fetch", "yield", "commit"}
    /\ pc' = sc_base_exception_target
    /\ exc' = "CancelledError"
    /\ raised' = Append(raised, "CancelledError")
    /\ UNCHANGED <<op, table, batch_size, cursorPos, batches, rowsOut, conn,
                   tx, outcome, events, body, db, nonReqVars, pending, batVars>>

\* line 72: await tr.commit()
sc_commit ==
    /\ op = "server_cursor" /\ pc = "commit"
    /\ events' = Append(events, "tr.commit")
    /\ \E ok \in BOOLEAN :
        IF ok
        THEN /\ tx' = "committed"
             /\ pc' = "finally"
             /\ exc' = exc
             /\ raised' = raised
        ELSE /\ tx' = "failed"
             /\ pc' = "except"
             /\ exc' = "CommitError"
             /\ raised' = Append(raised, "CommitError")
    /\ UNCHANGED <<op, table, batch_size, cursorPos, batches, rowsOut, conn,
                   outcome, body, db, nonReqVars, pending, batVars>>

\* lines 78-80: what is raised after the rollback attempt: the inner handler
\* swallows a failed rollback and the bare `raise` re-raises the original.
sc_reraise_rollback_error(original, rollback_ok) ==
    IF rollback_ok THEN original ELSE "RollbackError"

sc_reraise(original, rollback_ok) == original

\* lines 73-80: except Exception: try tr.rollback(), then raise.
\* A transaction that never started or failed in COMMIT cannot roll back.
sc_except ==
    /\ op = "server_cursor" /\ pc = "except"
    /\ events' = Append(events, "tr.rollback")
    /\ \E ok \in (IF tx = "started" THEN BOOLEAN ELSE {FALSE}) :
        /\ tx' = IF ok THEN "rolledback" ELSE tx
        /\ exc' = sc_reraise(exc, ok)
        /\ raised' = IF ok THEN raised ELSE Append(raised, "RollbackError")
    /\ pc' = "finally"
    /\ UNCHANGED <<op, table, batch_size, cursorPos, batches, rowsOut, conn,
                   outcome, body, db, nonReqVars, pending, batVars>>

\* lines 81-83: finally: await pool.release(conn); then the exception in
\* flight, if any, leaves the generator.
sc_finally ==
    /\ op = "server_cursor" /\ pc = "finally"
    /\ events' = Append(events, "release")
    /\ conn' = "released"
    /\ pc' = "done"
    /\ outcome' = IF exc = "none" THEN "ok" ELSE exc
    /\ UNCHANGED <<op, raised, table, batch_size, cursorPos, batches,
                   rowsOut, tx, exc, body, db, nonReqVars, pending, batVars>>

\* ----------------------------------------------------- fetch_large_dataset
\* asyncpg_cursor.py line 21: server_cursor is wrapped by @asynccontextmanager,
\* so the call server_cursor(...) returns a context manager around the
\* generator, not the generator.
server_cursor_call == "async_context_manager"

\* `async for` needs an object with __aiter__; a context manager has none.
AsyncIterable(obj) == obj = "async_generator"

\* lines 65-69 run to exhaustion: the batches from cursor position pos on.
RECURSIVE StreamBatches(_, _, _)
StreamBatches(rows, pos, size) ==
    LET batch == FetchBatch(rows, pos, size) IN
    IF batch = <<>> THEN <<>>
    ELSE <<batch>> \o StreamBatches(rows, pos + Len(batch), size)

\* lines 116-122: async for batch in server_cursor(...): for row in batch: yield
fetch_large_dataset ==
    /\ op = "fetch_large_dataset" /\ pc = "call"
    /\ IF AsyncIterable(server_cursor_call)
       THEN /\ rowsOut' = Flatten(StreamBatches(table, 0, batch_size))
            /\ outcome' = "ok"
       ELSE /\ rowsOut' = <<>>
            /\ outcome' = "TypeError"
    /\ raised' = IF AsyncIterable(server_cursor_call)
                 THEN raised ELSE Append(raised, "TypeError")
    /\ pc' = "done"
    /\ UNCHANGED <<op, table, batch_size, cursorPos, batches, conn, tx, exc,
                   events, body, db, pending, nonReqVars, batVars>>

\* ---------------------------------------------------------- PostgresService
\* asyncpg_service.py lines 23, 33, 44, 55: pool = await get_pool()
svc_get_pool ==
    /\ op \in ServiceOps /\ pc = "call"
    /\ pc' = "acquire"
    /\ UNCHANGED <<op, nonReqVars, raised, table, batch_size, cursorPos,
                   batches, rowsOut, conn, tx, exc, outcome, events, body,
                   db, pending, batVars>>

\* lines 24, 34, 45, 56: async with pool.acquire() as conn: entering fails
\* with the pool's timeout error, and then neither body nor exit runs.
svc_acquire_next(ok) == IF ok THEN "run" ELSE "done"

svc_acquire ==
    /\ op \in ServiceOps /\ pc = "acquire"
    /\ \E ok \in BOOLEAN :
        /\ events' = Append(events, "acquire")
        /\ conn' = IF ok THEN "held" ELSE conn
        /\ pc' = svc_acquire_next(ok)
        /\ outcome' = IF ok THEN outcome ELSE "PoolTimeout"
        /\ raised' = IF ok THEN raised ELSE Append(raised, "PoolTimeout")
    /\ UNCHANGED <<op, table, batch_size, cursorPos, batches, rowsOut, tx,
                   exc, body, db, pending, nonReqVars, batVars>>

\* PgResult.from_records (asyncpg_pool.py 62-67), dict(record) or None
\* (asyncpg_service.py 47), fetchval (57): what each read returns.
svc_result(o, rows) ==
    CASE o = "fetch" -> rows
      [] o \in {"fetch_one", "fetch_val"} ->
            IF rows = <<>> THEN <<>> ELSE <<Head(rows)>>
      [] OTHER -> <<>>

\* A write outside a transaction is committed at once; inside one it waits
\* for the commit.
WriteDb(row) == IF tx = "started" THEN db ELSE Append(db, row)
WritePending(row) == IF tx = "started" THEN Append(pending, row) ELSE pending

\* lines 25, 35-36, 46-47, 57: the statement itself.
svc_run ==
    /\ op \in ServiceOps /\ pc = "run"
    /\ events' = Append(events, "statement")
    /\ \E ok \in BOOLEAN :
        IF ok
        THEN /\ rowsOut' = svc_result(op, table)
             /\ db' = IF op = "execute" THEN WriteDb(1) ELSE db
             /\ pending' = IF op = "execute" THEN WritePending(1) ELSE pending
             /\ exc' = exc
             /\ raised' = raised
        ELSE /\ exc' = "StatementError"
             /\ raised' = Append(raised, "StatementError")
             /\ UNCHANGED <<rowsOut, db, pending>>
    /\ pc' = "release"
    /\ UNCHANGED <<op, table, batch_size, cursorPos, batches, conn, tx,
                   outcome, body, nonReqVars, batVars>>

\* leaving `async with pool.acquire()`: the connection goes back to the pool.
svc_release ==
    /\ op \in ServiceOps /\ pc = "release"
    /\ events' = Append(events, "release")
    /\ conn' = "released"
    /\ pc' = "done"
    /\ outcome' = IF exc = "none" THEN "ok" ELSE exc
    /\ UNCHANGED <<op, raised, table, batch_size, cursorPos, batches,
                   rowsOut, tx, exc, body, db, pending, nonReqVars, batVars>>

\* ------------------------------------------- PostgresService.transaction
\* sql.py line 197: `async with pg_service.transaction() as conn`: the
\* operand is the coroutine of an async def (asyncpg_service.py line 59),
\* which has no __aenter__; the TypeError is caught at line 209 and turned
\* into HTTP 500 (line 211). No statement of the body runs.
transaction_example ==
    /\ op = "transaction_example" /\ pc = "call"
    /\ pc' = "done"
    /\ outcome' = "HTTP500"
    /\ raised' = Append(raised, "TypeError")
    /\ UNCHANGED <<op, table, batch_size, cursorPos, batches, rowsOut, conn,
                   tx, exc, events, body, db, pending, nonReqVars, batVars>>

\* asyncpg_service.py lines 70-71, awaited: pool = await get_pool();
\* return pool.acquire(). What comes back is the pool's acquire context.
tx_get_pool ==
    /\ op = "transaction" /\ pc = "call"
    /\ pc' = "enter"
    /\ UNCHANGED <<op, nonReqVars, raised, table, batch_size, cursorPos,
                   batches, rowsOut, conn, tx, exc, outcome, events, body,
                   db, pending, batVars>>

\* What entering the context returned by transaction() does to the
\* transaction state once the connection is acquired: pool.acquire() only
\* hands out the connection (line 71); no conn.transaction() is entered.
transaction_enter_tx(t) == t

\* `async with (await svc.transaction()) as conn`: enter.
tx_enter ==
    /\ op = "transaction" /\ pc = "enter"
    /\ \E ok \in BOOLEAN :
        /\ events' = Append(events, "acquire")
        /\ conn' = IF ok THEN "held" ELSE conn
        /\ tx' = IF ok THEN transaction_enter_tx(tx) ELSE tx
        /\ pc' = IF ok THEN "body" ELSE "done"
        /\ outcome' = IF ok THEN outcome ELSE "PoolTimeout"
        /\ raised' = IF ok THEN raised ELSE Append(raised, "PoolTimeout")
    /\ UNCHANGED <<op, table, batch_size, cursorPos, batches, rowsOut, exc,
                   body, db, pending, nonReqVars, batVars>>

\* The caller's body: its next statement succeeds or raises.
tx_body ==
    /\ op = "transaction" /\ pc = "body"
    /\ body # <<>>
    /\ events' = Append(events, "statement")
    /\ \E ok \in BOOLEAN :
        IF ok
        THEN /\ db' = WriteDb(Head(body))
             /\ pending' = WritePending(Head(body))
             /\ body' = Tail(body)
             /\ pc' = IF Tail(body) = <<>> THEN "exit" ELSE "body"
             /\ exc' = exc
             /\ raised' = raised
        ELSE /\ exc' = "StatementError"
             /\ raised' = Append(raised, "StatementError")
             /\ pc' = "exit"
             /\ UNCHANGED <<db, pending, body>>
    /\ UNCHANGED <<op, table, batch_size, cursorPos, batches, rowsOut, conn,
                   tx, outcome, nonReqVars, batVars>>

\* Leaving the acquire context: release, whatever the body did.
tx_exit ==
    /\ op = "transaction" /\ pc = "exit"
    /\ events' = Append(events, "release")
    /\ conn' = "released"
    /\ db' = IF tx = "started" /\ exc = "none" THEN db \o pending ELSE db
    /\ pending' = <<>>
    /\ pc' = "done"
    /\ outcome' = IF exc = "none" THEN "ok" ELSE exc
    /\ UNCHANGED <<op, raised, table, batch_size, cursorPos, batches,
                   rowsOut, tx, exc, body, nonReqVars, batVars>>

\* ------------------------------------------------------ execute_in_batches
\* asyncpg_cursor.py line 188: batch = items[i:i + batch_size]
BatchAt(its, start, size) == SubSeq(its, start + 1, Min(start + size, Len(its)))

\* line 187: the loop head, for i in range(0, total_items, batch_size)
bat_more(start, total) == start < total

\* lines 183-189 and 204: enter the next turn of the loop, or return.
bat_loop ==
    /\ op = "execute_in_batches" /\ pc \in {"call", "loop"}
    /\ IF bat_more(batch_i, Len(items))
       THEN /\ processed_items' =
                processed_items + Len(BatchAt(items, batch_i, batch_size))
            /\ pc' = "b_acquire"
            /\ outcome' = outcome
       ELSE /\ pc' = "done"
            /\ outcome' = "ok"
            /\ processed_items' = processed_items
    /\ batch_k' = 0
    /\ UNCHANGED <<op, raised, table, batch_size, cursorPos, batches,
                   rowsOut, conn, tx, exc, events, body, db, pending,
                   nonReqVars, items, batch_i, progress>>

\* line 191: async with pool.acquire() as conn
bat_acquire ==
    /\ op = "execute_in_batches" /\ pc = "b_acquire"
    /\ \E ok \in BOOLEAN :
        /\ events' = Append(events, "acquire")
        /\ conn' = IF ok THEN "held" ELSE conn
        /\ pc' = IF ok THEN "b_tr_start" ELSE "done"
        /\ outcome' = IF ok THEN outcome ELSE "PoolTimeout"
        /\ raised' = IF ok THEN raised ELSE Append(raised, "PoolTimeout")
    /\ UNCHANGED <<op, table, batch_size, cursorPos, batches, rowsOut, tx,
                   exc, body, db, pending, nonReqVars, batVars>>

\* line 192: async with conn.transaction(): one transaction per batch.
bat_tr_start ==
    /\ op = "execute_in_batches" /\ pc = "b_tr_start"
    /\ events' = Append(events, "tr.start")
    /\ \E ok \in BOOLEAN :
        IF ok
        THEN /\ tx' = "started"
             /\ pc' = IF BatchAt(items, batch_i, batch_size) = <<>>
                      THEN "b_tr_exit" ELSE "b_exec"
             /\ exc' = exc
             /\ raised' = raised
        ELSE /\ tx' = "failed"
             /\ pc' = "b_release"
             /\ exc' = "StartError"
             /\ raised' = Append(raised, "StartError")
    /\ UNCHANGED <<op, table, batch_size, cursorPos, batches, rowsOut, conn,
                   outcome, body, db, pending, nonReqVars, batVars>>

\* lines 194-198: the next item of the batch is executed, or fails.
bat_exec ==
    /\ op = "execute_in_batches" /\ pc = "b_exec"
    /\ events' = Append(events, "statement")
    /\ LET batch == BatchAt(items, batch_i, batch_size) IN
       \E ok \in BOOLEAN :
        IF ok
        THEN /\ db' = WriteDb(batch[batch_k + 1])
             /\ pending' = WritePending(batch[batch_k + 1])
             /\ batch_k' = batch_k + 1
             /\ pc' = IF batch_k + 1 = Len(batch) THEN "b_tr_exit" ELSE "b_exec"
             /\ exc' = exc
             /\ raised' = raised
        ELSE /\ exc' = "StatementError"
             /\ raised' = Append(raised, "StatementError")
             /\ pc' = "b_tr_exit"
             /\ UNCHANGED <<db, pending, batch_k>>
    /\ UNCHANGED <<op, table, batch_size, cursorPos, batches, rowsOut, conn,
                   tx, outcome, body, nonReqVars, items, batch_i,
                   processed_items, progress>>

\* line 192, conn.transaction() left with exception e in flight ("none" when
\* the block and the commit went through): what the database then holds.
TransactionExitDb_keeps_writes(dbv, pend, e) == dbv \o pend

TransactionExitDb(dbv, pend, e) == IF e = "none" THEN dbv \o pend ELSE dbv

\* line 192, leaving the transaction block: commit when the block ended
\* normally (the commit may fail), roll back when it raised.
bat_tr_exit ==
    /\ op = "execute_in_batches" /\ pc = "b_tr_exit"
    /\ IF exc = "none"
       THEN /\ events' = Append(events, "tr.commit")
            /\ \E ok \in BOOLEAN :
                IF ok
                THEN /\ tx' = "committed"
                     /\ exc' = exc
                     /\ raised' = raised
                ELSE /\ tx' = "failed"
                     /\ exc' = "CommitError"
                     /\ raised' = Append(raised, "CommitError")
       ELSE /\ events' = Append(events, "tr.rollback")
            /\ tx' = "rolledback"
            /\ exc' = exc
            /\ raised' = raised
    /\ db' = TransactionExitDb(db, pending, exc')
    /\ pending' = <<>>
    /\ pc' = "b_release"
    /\ UNCHANGED <<op, table, batch_size, cursorPos, batches, rowsOut, conn,
                   outcome, body, nonReqVars, batVars>>

\* line 191, leaving the acquire block: release; an exception goes on up.
bat_release ==
    /\ op = "execute_in_batches" /\ pc = "b_release"
    /\ events' = Append(events, "release")
    /\ conn' = "released"
    /\ pc' = IF exc = "none" THEN "b_callback" ELSE "done"
    /\ outcome' = IF exc = "none" THEN outcome ELSE exc
    /\ UNCHANGED <<op, raised, table, batch_size, cursorPos, batches,
                   rowsOut, tx, exc, body, db, pending, nonReqVars, batVars>>

\* lines 201-202: on_batch_complete(processed_items, total_items)
bat_callback_args_batch_only ==
    <<Len(BatchAt(items, batch_i, batch_size)), Len(items)>>

bat_callback_args == <<processed_items, Len(items)>>

bat_callback ==
    /\ op = "execute_in_batches" /\ pc = "b_callback"
    /\ progress' = Append(progress, bat_callback_args)
    /\ batch_i' = batch_i + batch_size
    /\ pc' = "loop"
    /\ UNCHANGED <<op, raised, table, batch_size, cursorPos, batches,
                   rowsOut, conn, tx, exc, outcome, events, body, db,
                   pending, nonReqVars, items, batch_k, processed_items>>

Next ==
    \/ sc_get_pool
    \/ sc_acquire
    \/ sc_tr_start
    \/ sc_declare
    \/ sc_fetch
    \/ sc_resume
    \/ sc_throw
    \/ sc_close
    \/ sc_cancel
    \/ sc_commit
    \/ sc_except
    \/ sc_finally
    \/ fetch_large_dataset
    \/ svc_get_pool
    \/ svc_acquire
    \/ svc_run
    \/ svc_release
    \/ transaction_example
    \/ tx_get_pool
    \/ tx_enter
    \/ tx_body
    \/ tx_exit
    \/ bat_loop
    \/ bat_acquire
    \/ bat_tr_start
    \/ bat_exec
    \/ bat_tr_exit
    \/ bat_release
    \/ bat_callback

Spec == Init /\ [][Next]_vars

\* The event loop keeps running the request: every awaited call returns or
\* raises (the pool is created with timeout=10.0 and command_timeout=60.0,
\* asyncpg_pool.py lines 34-35), and a generator left suspended at its yield
\* is resumed or closed by its driver or by the loop's finalizer.
FairSpec == Spec /\ WF_vars(Next)

\* ========================================================== asyncpg_pool.py
\* No request runs while the pool specification is explored.
RequestIdle ==
    /\ op = "none"
    /\ pc = "idle"
    /\ table = <<>>
    /\ items = <<>>
    /\ body = <<>>
    /\ batch_size = 1
    /\ cursorPos = 0
    /\ batches = <<>>
    /\ rowsOut = <<>>
    /\ conn = "none"
    /\ tx = "none"
    /\ exc = "none"
    /\ raised = <<>>
    /\ outcome = "pending"
    /\ events = <<>>
    /\ db = <<>>
    /\ pending = <<>>
    /\ batch_i = 0
    /\ batch_k = 0
    /\ processed_items = 0
    /\ progress = <<>>

\* line 14: _pool = None at import; no pool exists, every task is idle.
PoolInit ==
    /\ RequestIdle
    /\ PoolIdle
    /\ CacheIdle
    /\ MemoryIdle
    /\ ReduceIdle
    /\ ServiceIdle

\* lines 26-27 and 47: a task calls get_pool(). With a pool in _pool the
\* call returns it without suspending; with None it suspends in
\* `await asyncpg.create_pool(...)` (line 29).
get_pool_call(t) ==
    /\ task[t] = "idle"
    /\ calls[t] < MaxCalls
    /\ calls' = [calls EXCEPT ![t] = @ + 1]
    /\ IF _pool # 0
       THEN /\ returns' = returns \cup {<<t, _pool, pools[_pool]>>}
            /\ task' = task
       ELSE /\ returns' = returns
            /\ task' = [task EXCEPT ![t] = "creating"]
    /\ UNCHANGED <<_pool, pools, closeCalls, closing, nonPoolVars>>

\* lines 29-47: create_pool completes: the new pool is stored in _pool and
\* returned (no await lies between the two); or it fails and the error is
\* raised (lines 44-46) with _pool left as it is.
get_pool_created(t) ==
    /\ task[t] = "creating"
    /\ task' = [task EXCEPT ![t] = "idle"]
    /\ \E ok \in BOOLEAN :
        IF ok
        THEN LET id == Len(pools) + 1 IN
             /\ pools' = Append(pools, "open")
             /\ closeCalls' = Append(closeCalls, 0)
             /\ _pool' = id
             /\ returns' = returns \cup {<<t, id, "open">>}
        ELSE UNCHANGED <<pools, closeCalls, _pool, returns>>
    /\ UNCHANGED <<closing, calls, nonPoolVars>>

\* lines 51-53: a task calls close_pool(). With a pool in _pool it calls
\* close() on it and suspends in the await; with None it returns.
close_pool_call(t) ==
    /\ task[t] = "idle"
    /\ calls[t] < MaxCalls
    /\ calls' = [calls EXCEPT ![t] = @ + 1]
    /\ IF _pool # 0
       THEN /\ pools' = [pools EXCEPT ![_pool] = "closing"]
            /\ closeCalls' = [closeCalls EXCEPT ![_pool] = @ + 1]
            /\ closing' = [closing EXCEPT ![t] = _pool]
            /\ task' = [task EXCEPT ![t] = "closing"]
       ELSE UNCHANGED <<pools, closeCalls, closing, task>>
    /\ UNCHANGED <<_pool, returns, nonPoolVars>>

\* lines 53-55: close() completes; _pool = None.
close_pool_closed(t) ==
    /\ task[t] = "closing"
    /\ pools' = [pools EXCEPT ![closing[t]] = "closed"]
    /\ _pool' = 0
    /\ closing' = [closing EXCEPT ![t] = 0]
    /\ task' = [task EXCEPT ![t] = "idle"]
    /\ UNCHANGED <<closeCalls, calls, returns, nonPoolVars>>

PoolNext ==
    \/ \E t \in Tasks : get_pool_call(t)
    \/ \E t \in Tasks : get_pool_created(t)
    \/ \E t \in Tasks : close_pool_call(t)
    \/ \E t \in Tasks : close_pool_closed(t)

SpecPool == PoolInit /\ [][PoolNext]_vars

\* ================================================ async_redis_service.py
\* lines 54-60: the TTLs of CacheSettings, in seconds.
static == 604800
reference == 86400
user == 3600
session == 1800
volatile == 300

\* lines 31-50: the values of CacheCategory.
CacheCategory == {"static", "reference", "user", "session", "volatile"}

\* lines 89-91: getattr(self.settings, category.value).
_get_ttl(cat) ==
    CASE cat = "static" -> static
      [] cat = "reference" -> reference
      [] cat = "user" -> user
      [] cat = "session" -> session
      [] cat = "volatile" -> volatile

\* Key names are strings, written as sequences of characters so that Redis
\* can match them against glob patterns.
CACHE_PREFIX == <<"c">>
LogicalKeys == {<<"a">>, <<"b">>}
Prefixes == {<<>>, <<"p">>}

\* lines 93-98: f"{app_prefix}:{prefix}:{key}", or f"{app_prefix}:{key}" when
\* the prefix is None or empty.
_format_key(key, prefix) ==
    IF prefix # <<>>
    THEN CACHE_PREFIX \o <<":">> \o prefix \o <<":">> \o key
    ELSE CACHE_PREFIX \o <<":">> \o key

\* lines 184, 277, 302, 413: meta_key = f"{formatted_key}:meta".
meta_key(formatted_key) == formatted_key \o <<":", "m", "e", "t", "a">>

\* -------------------------------------------------- values, JSON and zlib
\* A Python value: its type, its content and the length of its JSON text.
PyValue(t, d, n) == [type |-> t, data |-> d, size |-> n]

\* `default=None` of get (line 120).
None == PyValue("NoneType", 0, 4)

\* The values callers cache: an int, a tuple whose JSON text is exactly
\* compression_threshold bytes long, a list one byte longer, and an object
\* json.dumps has no encoding for (a pydantic model, a set, bytes).
Values ==
    { PyValue("int", 7, 1),
      PyValue("tuple", 1, compression_threshold),
      PyValue("list", 2, compression_threshold + 1),
      PyValue("object", 3, 0) }

\* json.dumps: the JSON type a Python type is written as. Lists and tuples
\* both become arrays; json.dumps raises TypeError for any other object.
JsonSerializable(v) == v.type \in {"int", "list", "tuple", "str", "NoneType"}

JsonType(t) ==
    CASE t = "int" -> "number"
      [] t \in {"list", "tuple"} -> "array"
      [] t = "str" -> "string"
      [] t = "NoneType" -> "null"

json_dumps(v) == [jtype |-> JsonType(v.type), data |-> v.data, size |-> v.size]

\* json.loads: the Python type a JSON type is read as (an array is a list).
PyType(jtype) ==
    CASE jtype = "number" -> "int"
      [] jtype = "array" -> "list"
      [] jtype = "string" -> "str"
      [] jtype = "null" -> "NoneType"

\* Stored bytes: what they are (fmt), their leading bytes (head) and the
\* text they carry. The first byte of a JSON text is a digit, '[', '"' or
\* 'n'; a zlib stream starts with the two header bytes of its level.
JsonHead(text) ==
    CASE text.jtype = "number" -> <<48 + (text.data % 10)>>
      [] text.jtype = "array" -> <<91>>
      [] text.jtype = "string" -> <<34>>
      [] text.jtype = "null" -> <<110>>

\* str.encode('utf-8') of a JSON text (lines 179, 272).
encode(text) == [fmt |-> "json", head |-> JsonHead(text), text |-> text]

\* The two header bytes zlib.compress writes for a compression level.
ZlibHeader(level) ==
    CASE level \in {0, 1} -> <<120, 1>>
      [] level \in 2..5 -> <<120, 94>>
      [] level = 6 -> <<120, 156>>
      [] level \in 7..9 -> <<120, 218>>

\* lines 142, 228: the prefix b'x\x9c' the readers look for.
Sentinel == <<120, 156>>

startswith(value, bytes) ==
    /\ Len(value.head) >= Len(bytes)
    /\ SubSeq(value.head, 1, Len(bytes)) = bytes

\* lines 100-102: len(value) > self.settings.compression_threshold.
_should_compress(value) == value.text.size > compression_threshold

\* _compress at level 9, whose streams start with b'x\xda'.
_compress_level_9(value) ==
    [fmt |-> "zlib", head |-> ZlibHeader(9), text |-> value.text]

\* lines 104-106: zlib.compress(value, level=self.settings.compression_level).
_compress(value) ==
    [fmt |-> "zlib", head |-> ZlibHeader(settings.compression_level),
     text |-> value.text]

\* lines 108-114: zlib.decompress(value); a zlib.error is logged and the
\* value is returned as it was.
_decompress(value) ==
    IF value.fmt = "zlib" THEN encode(value.text) ELSE value

\* The value of the sibling key (lines 185, 277): b"compressed".
CompressedMark ==
    [fmt |-> "ascii", head |-> <<99, 111>>,
     text |-> [jtype |-> "none", data |-> 0, size |-> 10]]

\* Bytes that carry the sentinel but are no zlib stream: a truncated or
\* overwritten value, or one another client of the same Redis wrote.
Garbled ==
    [fmt |-> "garbled", head |-> Sentinel,
     text |-> [jtype |-> "none", data |-> 0, size |-> 16]]

\* bytes.decode('utf-8') succeeds on text, fails on a binary stream (the
\* byte 0x9c after 'x' is no valid UTF-8).
Utf8(value) == value.fmt \in {"json", "ascii"}

\* json.loads(bytes): decodes the bytes (UnicodeDecodeError when they are
\* not UTF-8), then parses the text (JSONDecodeError when it is not JSON).
json_loads_raises(value) ==
    IF ~Utf8(value) THEN "UnicodeDecodeError"
    ELSE IF value.fmt # "json" THEN "JSONDecodeError"
    ELSE "none"

json_loads(value) ==
    PyValue(PyType(value.text.jtype), value.text.data, value.text.size)

\* value.decode('utf-8') of stored text that is no JSON (lines 149, 237).
decode(value) == PyValue("str", value.text.data, value.text.size)

\* What a call hands back to its caller.
Return(v) == [status |-> "return", value |-> v]
Raise(e) == [status |-> "raise", value |-> e]

\* ------------------------------------------------------- Redis commands
\* The keyspace maps the name of every key that has not expired to its
\* value and the second (on the server's clock) at which it expires.
\* SET name value EX ex
redis_set(ks, t, name, value, ex) ==
    [n \in DOMAIN ks \cup {name} |->
        IF n = name THEN [value |-> value, exp |-> t + ex] ELSE ks[n]]

\* DEL name ...: removes the names that exist; the reply counts them.
redis_delete(ks, names) == [n \in DOMAIN ks \ names |-> ks[n]]

redis_delete_reply(ks, names) == Cardinality(names \cap DOMAIN ks)

\* EXPIRE name ex: the reply is 1 when the key exists, 0 otherwise.
redis_expire(ks, t, name, ex) ==
    IF name \in DOMAIN ks
    THEN [ks EXCEPT ![name] = [value |-> @.value, exp |-> t + ex]]
    ELSE ks

\* INCRBY name amount: an absent key counts from 0 and gets no expiry (-1);
\* a value that is no integer is left alone and the reply is an error.
IsInteger(value) == value.fmt = "json" /\ value.text.jtype = "number"

Number(n) == encode([jtype |-> "number", data |-> n, size |-> 1])

redis_incrby(ks, name, amount) ==
    IF name \notin DOMAIN ks
    THEN [n \in DOMAIN ks \cup {name} |->
            IF n = name THEN [value |-> Number(amount), exp |-> -1]
            ELSE ks[n]]
    ELSE IF IsInteger(ks[name].value)
    THEN [ks EXCEPT ![name] =
            [value |-> Number(@.value.text.data + amount), exp |-> @.exp]]
    ELSE ks

\* ------------------------------------------------------ AsyncRedisService
\* `ttl: Optional[int] = None` (lines 157, 246, 393).
TtlNone == -1

\* effective_ttl that ignores the ttl argument.
effective_ttl_of_category(ttl, cat) == _get_ttl(cat)

\* lines 175, 264, 408: ttl if ttl is not None else self._get_ttl(category).
effective_ttl(ttl, cat) == IF ttl # TtlNone THEN ttl ELSE _get_ttl(cat)

\* lines 142-149, get: decompress a value that starts with the sentinel,
\* then json.loads; TypeError and JSONDecodeError fall back to
\* value.decode('utf-8'), any other error leaves the method.
get_value(stored, decompress) ==
    LET value == IF decompress /\ startswith(stored, Sentinel)
                 THEN _decompress(stored)
                 ELSE stored
        error == json_loads_raises(value)
    IN  IF error = "none" THEN Return(json_loads(value))
        ELSE IF error = "JSONDecodeError" THEN Return(decode(value))
        ELSE Raise(error)

\* lines 116-149: get(key, default=None, prefix, decompress=True).
get(ks, key, prefix) ==
    LET formatted_key == _format_key(key, prefix) IN
    IF formatted_key \notin DOMAIN ks
    THEN Return(None)
    ELSE get_value(ks[formatted_key].value, TRUE)

\* lines 181-187, set: the commands sent for a serialized value. A value
\* longer than the threshold is compressed and its sibling key is written
\* first (line 185), then the key itself (line 187).
set_commands(ks, t, formatted_key, serialized, ex) ==
    IF _should_compress(serialized)
    THEN redis_set(
            redis_set(ks, t, meta_key(formatted_key), CompressedMark, ex),
            t, formatted_key, _compress(serialized), ex)
    ELSE redis_set(ks, t, formatted_key, serialized, ex)

\* set without its except clause: the TypeError of json.dumps leaves it.
set_propagates(ks, t, key, value, ttl, cat, prefix) ==
    IF ~JsonSerializable(value)
    THEN [store |-> ks, result |-> Raise("TypeError")]
    ELSE [store |-> set_commands(ks, t, _format_key(key, prefix),
                                 encode(json_dumps(value)),
                                 effective_ttl(ttl, cat)),
          result |-> Return(TRUE)]

\* lines 151-190: set(key, value, ttl, category, prefix). json.dumps raises
\* TypeError before any command is sent; the error is logged and the result
\* is False (lines 188-190).
set(ks, t, key, value, ttl, cat, prefix) ==
    IF ~JsonSerializable(value)
    THEN [store |-> ks, result |-> Return(FALSE)]
    ELSE [store |-> set_commands(ks, t, _format_key(key, prefix),
                                 encode(json_dumps(value)),
                                 effective_ttl(ttl, cat)),
          result |-> Return(TRUE)]

\* multi_get without the test for the sentinel: nothing is decompressed.
multi_get_value_plain(stored) ==
    LET error == json_loads_raises(stored)
    IN  IF error = "none" THEN Return(json_loads(stored))
        ELSE IF error = "JSONDecodeError" THEN Return(decode(stored))
        ELSE Raise(error)

\* lines 226-237, multi_get: the same treatment of one reply of the pipeline.
multi_get_value(stored) ==
    LET value == IF startswith(stored, Sentinel)
                 THEN _decompress(stored)
                 ELSE stored
        error == json_loads_raises(value)
    IN  IF error = "none" THEN Return(json_loads(value))
        ELSE IF error = "JSONDecodeError" THEN Return(decode(value))
        ELSE Raise(error)

\* lines 192-239: multi_get(keys, prefix): a dict of the keys whose reply is
\* not None, under their unformatted names.
multi_get(ks, requested, prefix) ==
    IF requested = {} THEN Return([key \in {} |-> None])
    ELSE LET present ==
                {key \in requested : _format_key(key, prefix) \in DOMAIN ks}
             item(key) == multi_get_value(ks[_format_key(key, prefix)].value)
         IN  IF \E key \in present : item(key).status = "raise"
             THEN Raise("UnicodeDecodeError")
             ELSE Return([key \in present |-> item(key).value])

\* multi_set with one try around the whole loop: a failing item leaves the
\* pipeline empty.
multi_set_queued_aborts(entries) ==
    IF \E key \in DOMAIN entries : ~JsonSerializable(entries[key])
    THEN {}
    ELSE DOMAIN entries

\* lines 268-282, multi_set: the keys whose SET commands reach the pipeline.
\* An item json.dumps rejects is logged and skipped (lines 280-282).
multi_set_queued(entries) == 
    {key \in DOMAIN entries : JsonSerializable(entries[key])}

\* lines 241-288: multi_set(items, ttl, category, prefix). Every queued item
\* adds SET commands to one pipeline (the sibling key first when the value
\* is compressed); the result is all() of the replies of pipe.execute().
multi_set(ks, t, entries, ttl, cat, prefix) ==
    IF DOMAIN entries = {} THEN [store |-> ks, result |-> Return(TRUE)]
    ELSE LET ex == effective_ttl(ttl, cat)
             serialized(key) == encode(json_dumps(entries[key]))
             queued == multi_set_queued(entries)
             compressed == {key \in queued : _should_compress(serialized(key))}
             names == {_format_key(key, prefix) : key \in queued}
             metas == {meta_key(_format_key(key, prefix)) : key \in compressed}
             logical(name) ==
                CHOOSE key \in queued : _format_key(key, prefix) = name
             written(name) ==
                IF name \in metas THEN CompressedMark
                ELSE IF logical(name) \in compressed
                THEN _compress(serialized(logical(name)))
                ELSE serialized(logical(name))
             results == [name \in names \cup metas |-> TRUE]
         IN  [store |->
                [n \in DOMAIN ks \cup names \cup metas |->
                    IF n \in names \cup metas
                    THEN [value |-> written(n), exp |-> t + ex]
                    ELSE ks[n]],
              result |-> Return(\A name \in DOMAIN results : results[name])]

\* lines 290-310: delete(key, prefix): DEL of the key and of its sibling in
\* one pipeline; the result is the sum of the two replies.
delete(ks, key, prefix) ==
    LET formatted_key == _format_key(key, prefix)
        results == <<redis_delete_reply(ks, {formatted_key}),
                     redis_delete_reply(ks, {meta_key(formatted_key)})>>
    IN  [store |-> redis_delete(ks, {formatted_key, meta_key(formatted_key)}),
         result |-> Return(results[1] + results[2])]

\* lines 359-386: increment(key, amount, category, prefix): INCRBY and EXPIRE
\* of the key in one pipeline; the result is the reply of INCRBY. On a value
\* that is no integer INCRBY fails, EXPIRE still runs and pipe.execute()
\* raises ResponseError.
increment(ks, t, key, amount, cat, prefix) ==
    LET formatted_key == _format_key(key, prefix)
        counted == redis_incrby(ks, formatted_key, amount)
        fails == /\ formatted_key \in DOMAIN ks
                 /\ ~IsInteger(ks[formatted_key].value)
    IN  [store |-> redis_expire(counted, t, formatted_key, _get_ttl(cat)),
         result |-> IF fails THEN Raise("ResponseError")
                    ELSE Return(counted[formatted_key].value.text.data)]

\* lines 388-416: touch(key, category, prefix, ttl): EXPIRE of the key and of
\* its sibling in one pipeline; the result is any() of the replies.
touch(ks, t, key, ttl, cat, prefix) ==
    LET formatted_key == _format_key(key, prefix)
        ex == effective_ttl(ttl, cat)
        results == <<formatted_key \in DOMAIN ks,
                     meta_key(formatted_key) \in DOMAIN ks>>
    IN  [store |->
            redis_expire(redis_expire(ks, t, formatted_key, ex),
                         t, meta_key(formatted_key), ex),
         result |-> Return(results[1] \/ results[2])]

\* ------------------------------------------------------- delete_pattern
\* Redis glob matching of a key name: '*' matches any run of characters
\* (':' included), '?' any one character.
RECURSIVE GlobMatch(_, _)
GlobMatch(p, s) ==
    IF p = <<>> THEN s = <<>>
    ELSE IF Head(p) = "*"
    THEN GlobMatch(Tail(p), s) \/ (s # <<>> /\ GlobMatch(p, Tail(s)))
    ELSE /\ s # <<>>
         /\ Head(p) = "?" \/ Head(p) = Head(s)
         /\ GlobMatch(Tail(p), Tail(s))

\* The order in which SCAN walks the names the keyspace can hold.
ScanOrder(prefix) ==
    << _format_key(<<"a">>, prefix), meta_key(_format_key(<<"a">>, prefix)),
       _format_key(<<"b">>, prefix), meta_key(_format_key(<<"b">>, prefix)) >>

\* The service reads replies as bytes (lines 142 and 228 test them against
\* b'x\x9c', line 149 decodes them): SCAN hands back key names as bytes.
Bytes(chars) == [type |-> "bytes", chars |-> chars]
Str(chars) == [type |-> "str", chars |-> chars]

\* SCAN cursor MATCH match COUNT count: the reply covers the next n names of
\* the walk; its cursor is 0 once the walk is complete.
redis_scan(ks, cur, match, n, prefix) ==
    LET order == ScanOrder(prefix)
        last == IF cur + n < Len(order) THEN cur + n ELSE Len(order)
        found == SelectSeq(SubSeq(order, cur + 1, last),
                           LAMBDA name : /\ name \in DOMAIN ks
                                         /\ GlobMatch(match, name))
    IN  [cursor |-> IF last = Len(order) THEN 0 ELSE last,
         batch |-> [j \in 1..Len(found) |-> Bytes(found[j])]]

\* line 334: f"{key}:meta". Formatting a bytes object gives its repr.
format(key) ==
    IF key.type = "bytes" THEN <<"b", "'">> \o key.chars \o <<"'">>
    ELSE key.chars

\* lines 330-334: keys.extend(batch), then the ":meta" name of every key of
\* the batch is appended.
delete_pattern_collect(found, batch) ==
    found \o batch \o [j \in 1..Len(batch) |-> Str(meta_key(format(batch[j])))]

\* The names DEL receives for the collected keys.
KeyNames(found) == {found[j].chars : j \in 1..Len(found)}

\* ------------------------------------------------------------ one client
Ttls == {TtlNone, 60}
Patterns == {<<"a">>, <<"?">>, <<"*">>}
Entries == UNION {[ks -> Values] : ks \in SUBSET LogicalKeys}

\* The client starts on an empty keyspace and passes the same category and
\* prefix to every call of the run: any category without a prefix, or
\* CacheCategory.USER with the prefix "p".
CacheInit ==
    /\ RequestIdle
    /\ PoolIdle
    /\ MemoryIdle
    /\ ReduceIdle
    /\ ServiceIdle
    /\ redis = [name \in {} |-> 0]
    /\ clock = 0
    /\ elapsed = 0
    /\ ncalls = 0
    /\ category \in CacheCategory
    /\ key_prefix \in Prefixes
    /\ key_prefix = <<>> \/ category = "user"
    /\ call = [op |-> "none"]
    /\ result = [status |-> "none"]
    /\ cpc = "idle"
    /\ cursor = 0
    /\ keys = <<>>

CanCall == cpc = "idle" /\ ncalls < MaxOps

Called(c, r) ==
    /\ call' = c
    /\ result' = r
    /\ ncalls' = ncalls + 1
    /\ UNCHANGED <<clock, elapsed, category, key_prefix, nonCacheVars>>

call_get ==
    /\ CanCall
    /\ \E key \in LogicalKeys :
        Called([op |-> "get", key |-> key], get(redis, key, key_prefix))
    /\ UNCHANGED <<redis, cpc, cursor, keys>>

call_set ==
    /\ CanCall
    /\ \E key \in LogicalKeys, value \in Values, ttl \in Ttls :
        LET r == set(redis, clock, key, value, ttl, category, key_prefix) IN
        /\ redis' = r.store
        /\ Called([op |-> "set", key |-> key, value |-> value, ttl |-> ttl],
                  r.result)
    /\ UNCHANGED <<cpc, cursor, keys>>

call_multi_get ==
    /\ CanCall
    /\ \E requested \in SUBSET LogicalKeys :
        Called([op |-> "multi_get", keys |-> requested],
               multi_get(redis, requested, key_prefix))
    /\ UNCHANGED <<redis, cpc, cursor, keys>>

call_multi_set ==
    /\ CanCall
    /\ \E entries \in Entries, ttl \in Ttls :
        LET r == multi_set(redis, clock, entries, ttl, category, key_prefix)
        IN  /\ redis' = r.store
            /\ Called([op |-> "multi_set", items |-> entries, ttl |-> ttl],
                      r.result)
    /\ UNCHANGED <<cpc, cursor, keys>>

call_delete ==
    /\ CanCall
    /\ \E key \in LogicalKeys :
        LET r == delete(redis, key, key_prefix) IN
        /\ redis' = r.store
        /\ Called([op |-> "delete", key |-> key], r.result)
    /\ UNCHANGED <<cpc, cursor, keys>>

call_increment ==
    /\ CanCall
    /\ \E key \in LogicalKeys :
        LET r == increment(redis, clock, key, 1, category, key_prefix) IN
        /\ redis' = r.store
        /\ Called([op |-> "increment", key |-> key], r.result)
    /\ UNCHANGED <<cpc, cursor, keys>>

call_touch ==
    /\ CanCall
    /\ \E key \in LogicalKeys, ttl \in Ttls :
        LET r == touch(redis, clock, key, ttl, category, key_prefix) IN
        /\ redis' = r.store
        /\ Called([op |-> "touch", key |-> key, ttl |-> ttl], r.result)
    /\ UNCHANGED <<cpc, cursor, keys>>

\* lines 323-327: delete_pattern(pattern, prefix) up to its first await.
call_delete_pattern ==
    /\ CanCall
    /\ \E pattern \in Patterns :
        Called([op |-> "delete_pattern", pattern |-> pattern],
               [status |-> "pending"])
    /\ cpc' = "scan"
    /\ cursor' = 0
    /\ keys' = <<>>
    /\ UNCHANGED redis

\* lines 328-337: one turn of the loop: SCAN, collect, leave at cursor 0.
delete_pattern_scan ==
    /\ cpc = "scan"
    /\ \E n \in 1..ScanCount :
        LET reply == redis_scan(redis, cursor,
                                _format_key(call.pattern, key_prefix), n,
                                key_prefix)
        IN  /\ cursor' = reply.cursor
            /\ keys' = delete_pattern_collect(keys, reply.batch)
            /\ cpc' = IF reply.cursor = 0 THEN "delete" ELSE "scan"
    /\ UNCHANGED <<redis, clock, elapsed, ncalls, category, key_prefix, call,
                   result, nonCacheVars>>

\* lines 339-343: 0 when nothing was collected, else the reply of one DEL.
delete_pattern_delete ==
    /\ cpc = "delete"
    /\ cpc' = "idle"
    /\ IF keys = <<>>
       THEN /\ result' = Return(0)
            /\ redis' = redis
       ELSE /\ result' = Return(redis_delete_reply(redis, KeyNames(keys)))
            /\ redis' = redis_delete(redis, KeyNames(keys))
    /\ UNCHANGED <<clock, elapsed, ncalls, category, key_prefix, call,
                   cursor, keys, nonCacheVars>>

\* Another client of the same Redis leaves bytes under a key of the service
\* that start with the sentinel and are no zlib stream.
foreign_set ==
    /\ CanCall
    /\ \E key \in LogicalKeys :
        /\ redis' = redis_set(redis, clock, _format_key(key, key_prefix),
                              Garbled, _get_ttl(category))
        /\ Called([op |-> "foreign_set", key |-> key], [status |-> "none"])
    /\ UNCHANGED <<cpc, cursor, keys>>

\* Time passes until the expiry of one of the keys comes. Redis drops every
\* key whose expiry has come by then.
Elapse ==
    /\ elapsed < MaxElapse
    /\ elapsed' = elapsed + 1
    /\ \E d \in {redis[n].exp - clock : n \in DOMAIN redis} :
        /\ clock' = clock + d
        /\ redis' = [n \in {m \in DOMAIN redis : redis[m].exp > clock + d}
                        |-> redis[n]]
    /\ UNCHANGED <<ncalls, category, key_prefix, call, result, cpc, cursor,
                   keys, nonCacheVars>>

CacheNext ==
    \/ call_get
    \/ call_set
    \/ call_multi_get
    \/ call_multi_set
    \/ call_delete
    \/ call_increment
    \/ call_touch
    \/ call_delete_pattern
    \/ delete_pattern_scan
    \/ delete_pattern_delete
    \/ foreign_set
    \/ Elapse

SpecCache == CacheInit /\ [][CacheNext]_vars

\* ------------------------------------------------- the async_cache decorator
\* lines 470-502: the wrapper async_cache puts around a function. Without a
\* cache service among the arguments the function is called directly (lines
\* 484-486). Otherwise the key is looked up (line 492); a result that is not
\* None is returned (lines 493-494); else the function is called (line 497),
\* its result is handed to set (line 500) and returned (line 502). `value`
\* is what the function returns when it is called.
async_cache(ks, t, cache_service, cache_key, value, ttl, cat) ==
    IF ~cache_service
    THEN [store |-> ks, result |-> Return(value), invoked |-> TRUE]
    ELSE LET cached_result == get(ks, cache_key, <<>>) IN
         IF cached_result.status = "raise"
         THEN [store |-> ks, result |-> cached_result, invoked |-> FALSE]
         ELSE IF cached_result.value # None
         THEN [store |-> ks, result |-> cached_result, invoked |-> FALSE]
         ELSE [store |-> set(ks, t, cache_key, value, ttl, cat, <<>>).store,
               result |-> Return(value),
               invoked |-> TRUE]

\* What the decorated functions return: any of the cached values, or None.
Results == Values \cup {None}

\* A caller calls a decorated function (category USER, no ttl: sql.py line
\* 213) with or without a cache service; the call is added to the history
\* with the second at which it was made.
call_async_cache(cache_service, cache_key, value) ==
    /\ CanCall
    /\ LET r == async_cache(redis, clock, cache_service, cache_key, value,
                            TtlNone, category)
       IN /\ redis' = r.store
          /\ result' = r.result
          /\ call' = [op |-> "async_cache", key |-> cache_key,
                      cache_service |-> cache_service,
                      invoked |-> r.invoked]
          /\ history' = Append(history,
                               [key |-> cache_key,
                                cache_service |-> cache_service,
                                invoked |-> r.invoked,
                                result |-> r.result,
                                at |-> clock,
                                untouched |-> r.store = redis])
    /\ ncalls' = ncalls + 1
    /\ UNCHANGED <<clock, elapsed, category, key_prefix, cpc, cursor, keys,
                   settings, pending_operations, stats,
                   reqVars, batVars, poolVars, memVars, redVars>>

DecoratedNext ==
    \/ \E cache_service \in BOOLEAN, key \in LogicalKeys, value \in Results :
        call_async_cache(cache_service, key, value)
    \/ Elapse

DecoratedInit ==
    /\ RequestIdle
    /\ PoolIdle
    /\ MemoryIdle
    /\ ReduceIdle
    /\ CacheIdle
    /\ ServiceIdle

SpecDecorated == DecoratedInit /\ [][DecoratedNext]_vars

\* ------------------------------------------ one client, any configured level
\* line 64: "Niveau de compression zlib (1-9, où 9 est max)".
Levels == 1..9

\* A service whose settings carry any of the levels, used by one client for
\* set, multi_set, get and multi_get in CacheCategory.USER.
LevelsInit ==
    /\ RequestIdle
    /\ PoolIdle
    /\ MemoryIdle
    /\ ReduceIdle
    /\ CacheIdle
    /\ settings \in [compression_threshold : {compression_threshold},
                     compression_level : Levels]
    /\ pending_operations = <<>>
    /\ stats = [batch_operations |-> 0]
    /\ history = <<>>

LevelsNext ==
    \/ call_set
    \/ call_multi_set
    \/ call_get
    \/ call_multi_get

SpecLevels == LevelsInit /\ [][LevelsNext]_vars

\* ============================================================ meta_agent.py
\* Messages of a conversation. The k-th message of the conversation has the
\* content <<k>>; <<>> is the empty string "".
HumanMessage(c) == [type |-> "human", content |-> c]
AIMessage(c) == [type |-> "ai", content |-> c]

\* conversation_id values: the empty string stands for the falsy ones
\* (None, ""), which line 46 tests with `not conversation_id`.
NoConversation == ""
ConversationIds == {"c1", "c2"}

\* ConversationTokenBufferMemory as the module uses it: the object records
\* the save_context(input, output) calls it received, in order.
NewMemory == [saved |-> <<>>]

\* lines 122-138 (isinstance tests the message's type): one iteration of
\* the loop at 0-based position i. A
\* HumanMessage directly followed by an AIMessage is saved as one exchange
\* and i advances by 2; any other message is saved with the output "" and
\* i advances by 1.
pairs_alone(messages, i) ==
    [save |-> <<messages[i + 1].content, <<>>>>, step |-> 1]

pairs(messages, i) ==
    IF /\ messages[i + 1].type = "human"
       /\ i + 1 < Len(messages)
       /\ messages[i + 2].type = "ai"
    THEN [save |-> <<messages[i + 1].content, messages[i + 2].content>>,
          step |-> 2]
    ELSE [save |-> <<messages[i + 1].content, <<>>>>, step |-> 1]

\* lines 119-120: i = 0; while i < len(messages). The save_context calls
\* the loop makes from position i on, in order.
RECURSIVE process_from(_, _)
process_from(messages, i) ==
    IF i < Len(messages)
    THEN <<pairs(messages, i).save>>
            \o process_from(messages, i + pairs(messages, i).step)
    ELSE <<>>

\* lines 114-138: _process_messages(memory, messages) mutates the memory
\* object in place; the value is the object after the call.
_process_messages(mem, messages) ==
    [saved |-> mem.saved \o process_from(messages, 0)]

\* line 54: is there a snapshot under exactly this key?
cache_hit_never(cache, cache_key) == FALSE

cache_hit(cache, cache_key) == cache_key \in DOMAIN cache

\* line 59: the message counts below msg_count recorded for the conversation.
prev_msg_counts(cache, conversation_id, msg_count) ==
    {k[2] : k \in {x \in DOMAIN cache :
                        x[1] = conversation_id /\ x[2] < msg_count}}

\* line 68: new_messages = chat_messages[prev_count:], with prev_count the
\* largest recorded count (line 63: max(prev_msg_counts)).
new_messages_all(chat_messages, prev_count) == chat_messages

new_messages(chat_messages, prev_count) ==
    SubSeq(chat_messages, prev_count + 1, Len(chat_messages))

\* line 75 / line 80: _memory_cache[cache_key] = memory
Store(cache, cache_key, id) ==
    [k \in DOMAIN cache \cup {cache_key} |->
        IF k = cache_key THEN id ELSE cache[k]]

\* lines 83-104: _create_memory_from_scratch allocates a new memory object
\* and processes every message into it (line 103).
_create_memory_from_scratch(heap, chat_messages) ==
    [heap |-> Append(heap, _process_messages(NewMemory, chat_messages)),
     memory |-> Len(heap) + 1,
     processed |-> <<chat_messages>>]

\* lines 106-112: _update_memory processes the new messages into the memory
\* object it is given (line 111) and returns that same object (line 112).
_update_memory(heap, id, messages) ==
    [heap |-> [heap EXCEPT ![id] = _process_messages(heap[id], messages)],
     memory |-> id,
     processed |-> <<messages>>]

\* get_conv_token_buffer_memory without the lookups of lines 54 and 59: what
\* a caller would do that had looked before another caller's insert.
get_conv_memory_unseen(cache, heap, chat_messages, conversation_id) ==
    LET scratch == _create_memory_from_scratch(heap, chat_messages) IN
    IF conversation_id = NoConversation \/ chat_messages = <<>>
    THEN [cache |-> cache] @@ scratch
    ELSE [cache |-> Store(cache, <<conversation_id, Len(chat_messages)>>,
                          scratch.memory)] @@ scratch

\* lines 25-81: get_conv_token_buffer_memory. The value is the module state
\* after the call, the object returned and the arguments of every
\* _process_messages call made on the way.
get_conv_token_buffer_memory(cache, heap, chat_messages, conversation_id) ==
    LET msg_count == Len(chat_messages)
        cache_key == <<conversation_id, msg_count>>
        prev == prev_msg_counts(cache, conversation_id, msg_count)
        scratch == _create_memory_from_scratch(heap, chat_messages)
    IN
    IF conversation_id = NoConversation \/ chat_messages = <<>>
    THEN [cache |-> cache] @@ scratch
    ELSE IF cache_hit(cache, cache_key)
    THEN [cache |-> cache, heap |-> heap, memory |-> cache[cache_key],
          processed |-> <<>>]
    ELSE IF prev # {}
    THEN LET prev_count == CHOOSE m \in prev : \A n \in prev : n <= m
             prev_memory == cache[<<conversation_id, prev_count>>]
             updated == _update_memory(heap, prev_memory,
                            new_messages(chat_messages, prev_count))
         IN [cache |-> Store(cache, cache_key, updated.memory)] @@ updated
    ELSE [cache |-> Store(cache, cache_key, scratch.memory)] @@ scratch

\* The messages of the conversation the callers materialize: user and
\* assistant messages in any order.
Conversations ==
    {[k \in 1..MaxMessages |->
        IF t[k] = "human" THEN HumanMessage(<<k>>) ELSE AIMessage(<<k>>)] :
     t \in [1..MaxMessages -> {"human", "ai"}]}

\* line 23: _memory_cache = {} at import.
MemoryInit ==
    /\ RequestIdle
    /\ PoolIdle
    /\ CacheIdle
    /\ ReduceIdle
    /\ ServiceIdle
    /\ _memory_cache = [k \in {} |-> 0]
    /\ memories = <<>>
    /\ conversation \in Conversations
    /\ mcall = [n |-> 0, conversation_id |-> NoConversation]
    /\ memory = 0
    /\ processed = <<>>
    /\ materialized = 0

\* A caller materializes the first n messages of the conversation, under a
\* conversation id or without one.
call_get_conv_token_buffer_memory(n, conversation_id) ==
    /\ materialized < MaxMaterialized
    /\ LET r == get_conv_token_buffer_memory(_memory_cache, memories,
                    SubSeq(conversation, 1, n), conversation_id)
       IN /\ _memory_cache' = r.cache
          /\ memories' = r.heap
          /\ memory' = r.memory
          /\ processed' = r.processed
    /\ mcall' = [n |-> n, conversation_id |-> conversation_id]
    /\ materialized' = materialized + 1
    /\ UNCHANGED <<conversation, nonMemVars>>

MemoryNext ==
    \E n \in 0..MaxMessages, c \in ConversationIds \cup {NoConversation} :
        call_get_conv_token_buffer_memory(n, c)

SpecMemory == MemoryInit /\ [][MemoryNext]_vars

\* One conversation that grows: every call materializes the conversation
\* id "c1" with a message list that extends the list of the call before.
call_extended ==
    \E n \in mcall.n..MaxMessages :
        call_get_conv_token_buffer_memory(n, "c1")

SpecExtend == MemoryInit /\ [][call_extended]_vars

\* ================================= memory_optimizer.py, optimized_memory.py
\* A text is <<k, n>>: the k-th text of the history, n characters long.
\* tokenization.py lines 42-53: the empty text has no token; without the
\* tiktoken encoder a text of n characters counts n // 4 + 1 tokens.
get_token_length(text) == IF text[2] = 0 THEN 0 ELSE text[2] \div 4 + 1

\* tokenization.py lines 31-53 with the tiktoken encoder: "exact" when
\* encode returns (encoded is the length of its list), "fails" when the
\* encoder raises (lines 49-50), "unavailable" when tiktoken could not be
\* imported (lines 11-15).
Tokenizers == {"exact", "fails", "unavailable"}

get_token_length_tiktoken(text, tokenizer, encoded) ==
    IF text[2] = 0 THEN 0
    ELSE IF tokenizer = "exact" THEN encoded
    ELSE get_token_length(text)

Types == {"human", "ai", "system"}
Message(t, k, n) == [type |-> t, content |-> <<k, n>>]

\* memory_optimizer.py lines 93 and 134, optimized_memory.py lines 237-240:
\* the token cost of a list of messages.
RECURSIVE token_count(_)
token_count(messages) ==
    IF messages = <<>> THEN 0
    ELSE get_token_length(Head(messages).content) + token_count(Tail(messages))

\* Fractions of the code, in hundredths.
reduction_threshold == 85
target_normal == 75
target_aggressive == 60
rate_normal == 50
rate_aggressive == 30
keep_pairs == 3

\* memory_optimizer.py lines 96-97, optimized_memory.py lines 157-158: the
\* reduction runs when the cost is above max_token_limit * threshold.
above_threshold_always(cost, limit) == TRUE

above_threshold_at_95(cost, limit) == cost * 100 > limit * 95

above_threshold(cost, limit) == cost * 100 > limit * reduction_threshold

\* memory_optimizer.py line 101, optimized_memory.py line 197.
IsSystem(m) == m.type \notin {"human", "ai"}
system_messages(messages) == SelectSeq(messages, IsSystem)

\* memory_optimizer.py lines 104-108, optimized_memory.py lines 200-204:
\* for i in range(0, len(messages) - 1, 2), the pair (messages[i],
\* messages[i+1]) when the first is a HumanMessage and the second an
\* AIMessage. i is 0-based.
RECURSIVE conversation_pairs_untyped(_, _)
conversation_pairs_untyped(messages, i) ==
    IF i >= Len(messages) - 1 THEN <<>>
    ELSE <<<<messages[i + 1], messages[i + 2]>>>>
            \o conversation_pairs_untyped(messages, i + 2)

RECURSIVE conversation_pairs(_, _)
conversation_pairs(messages, i) ==
    IF i >= Len(messages) - 1 THEN <<>>
    ELSE (IF messages[i + 1].type = "human" /\ messages[i + 2].type = "ai"
          THEN <<<<messages[i + 1], messages[i + 2]>>>>
          ELSE <<>>)
            \o conversation_pairs(messages, i + 2)

Max(a, b) == IF a > b THEN a ELSE b

\* memory_optimizer.py lines 111-112, optimized_memory.py line 207: the
\* last three pairs, or all of them.
recent_pairs(cp) ==
    SubSeq(cp, Len(cp) - Min(keep_pairs, Len(cp)) + 1, Len(cp))

\* memory_optimizer.py line 115, optimized_memory.py line 215.
older_pairs(cp) ==
    IF Len(cp) > keep_pairs THEN SubSeq(cp, 1, Len(cp) - keep_pairs) ELSE <<>>

\* older[i] for i in range(0, len(older), stride)
Strided(older, stride) ==
    [j \in 1..((Len(older) + stride - 1) \div stride) |->
        older[(j - 1) * stride + 1]]

\* memory_optimizer.py lines 118-126.
sampled_pairs(older, aggressive) ==
    IF older = <<>> THEN <<>>
    ELSE LET sample_rate ==
                IF aggressive THEN rate_aggressive ELSE rate_normal
             sample_count == Max(1, (Len(older) * sample_rate) \div 100)
             stride == Max(1, Len(older) \div sample_count)
         IN Strided(older, stride)

\* memory_optimizer.py lines 129-131, optimized_memory.py lines 208-211 and
\* 223-226: the system messages, then the messages of the kept pairs.
rebuilt_twice(system, kept) == system \o Flatten(kept) \o Flatten(kept)

rebuilt(system, kept) == system \o Flatten(kept)

\* memory_optimizer.py lines 66-145: dynamic_memory_reduction. The value is
\* memory.chat_memory.messages after the call and the number returned.
dynamic_memory_reduction(messages, limit, aggressive) ==
    IF ~above_threshold(token_count(messages), limit)
    THEN [messages |-> messages, tokens_saved |-> 0]
    ELSE LET cp == conversation_pairs(messages, 0)
             new == rebuilt(system_messages(messages),
                        sampled_pairs(older_pairs(cp), aggressive)
                            \o recent_pairs(cp))
         IN [messages |-> new,
             tokens_saved |-> token_count(messages) - token_count(new)]

\* optimized_memory.py lines 182-228: _retain_important_messages. The
\* sampled older pairs are added when the system messages and the recent
\* pairs are above the target and there are more than three pairs.
_retain_important_messages(messages, limit, target) ==
    LET cp == conversation_pairs(messages, 0)
        retained == rebuilt(system_messages(messages), recent_pairs(cp))
    IN IF token_count(retained) * 100 > limit * target /\ Len(cp) > keep_pairs
       THEN LET older == older_pairs(cp)
                sample_count == Max(1, Len(older) \div 2)
                stride == Len(older) \div sample_count
            IN rebuilt(system_messages(messages),
                    Strided(older, stride) \o recent_pairs(cp))
       ELSE retained

\* optimized_memory.py lines 142-180: _dynamic_memory_reduction. Without an
\* LLM nothing is counted and nothing is reduced (lines 149-150). The value
\* is chat_memory.messages after the call and what was added to
\* stats["tokens_saved"].
_dynamic_memory_reduction(messages, limit, llm, aggressive) ==
    IF ~llm \/ ~above_threshold(token_count(messages), limit)
    THEN [messages |-> messages, tokens_saved |-> 0]
    ELSE LET retained_messages ==
                _retain_important_messages(messages, limit,
                    IF aggressive THEN target_aggressive ELSE target_normal)
         IN [messages |-> retained_messages,
             tokens_saved |->
                token_count(messages) - token_count(retained_messages)]

\* ----------------------------------------------------------- the histories
\* Lengths of the texts, in characters: 5, 40, 45 and 200 tokens.
TextLengths == {16, 156, 176, 796}
Budgets == {100}

\* Short histories of messages of any type and length, in any order.
FreeHistories ==
    UNION {{[k \in 1..n |-> Message(t[k], k, c[k])] :
                t \in [1..n -> Types], c \in [1..n -> TextLengths]} :
           n \in 0..MaxFree}

\* Long histories: k exchanges of a user and an assistant message of 45
\* tokens each, as save_context appends them, alone or with one more message
\* of any type at any position.
ExchangeTypes(k) == [j \in 1..(2 * k) |-> IF j % 2 = 1 THEN "human" ELSE "ai"]

ExchangeHistories ==
    {[j \in 1..Len(ts) |-> Message(ts[j], j, 176)] :
        ts \in {ExchangeTypes(k) : k \in 0..MaxPairs}
            \cup UNION {{SubSeq(ExchangeTypes(k), 1, p) \o <<t>>
                            \o SubSeq(ExchangeTypes(k), p + 1, 2 * k) :
                          p \in 0..(2 * k), t \in Types} :
                        k \in 0..MaxPairs}}

\* The exchanges save_context is called with: the lengths of input and
\* output.
SavedExchanges == {<<16, 16>>, <<796, 796>>}

ReduceInit ==
    /\ RequestIdle
    /\ PoolIdle
    /\ CacheIdle
    /\ MemoryIdle
    /\ ServiceIdle
    /\ chat_memory \in FreeHistories \cup ExchangeHistories
    /\ max_token_limit \in Budgets
    /\ rcall = [op |-> "none"]
    /\ tokens_saved = 0

\* memory_optimizer.dynamic_memory_reduction(memory, max_token_limit,
\* aggressive=...) is called on the memory, with the default threshold.
call_dynamic_memory_reduction(aggressive) ==
    /\ rcall.op = "none"
    /\ LET r == dynamic_memory_reduction(chat_memory, max_token_limit,
                    aggressive)
       IN /\ chat_memory' = r.messages
          /\ tokens_saved' = r.tokens_saved
    /\ rcall' = [op |-> "dynamic_memory_reduction", llm |-> TRUE,
                 aggressive |-> aggressive, messages |-> chat_memory]
    /\ UNCHANGED <<max_token_limit, nonRedVars>>

\* optimized_memory.py lines 82-109: OptimizedTokenBufferMemory.save_context
\* on a memory built with or without an LLM and with or without aggressive
\* reduction, and without a cache service (redis_service=None, line 40), so
\* that lines 107-109 write nothing. The user and the assistant message are
\* appended (lines 100-101) and the reduction runs (line 104).
call_save_context(input, output, llm, aggressive) ==
    /\ rcall.op = "none"
    /\ LET added == chat_memory
                \o <<Message("human", Len(chat_memory) + 1, input),
                     Message("ai", Len(chat_memory) + 2, output)>>
           r == _dynamic_memory_reduction(added, max_token_limit, llm,
                    aggressive)
       IN /\ chat_memory' = r.messages
          /\ tokens_saved' = r.tokens_saved
          /\ rcall' = [op |-> "save_context", llm |-> llm,
                       aggressive |-> aggressive, messages |-> added]
    /\ UNCHANGED <<max_token_limit, nonRedVars>>

ReduceNext ==
    \/ \E aggressive \in BOOLEAN : call_dynamic_memory_reduction(aggressive)
    \/ \E e \in SavedExchanges, llm \in BOOLEAN, aggressive \in BOOLEAN :
        /\ llm \/ ~aggressive
        /\ call_save_context(e[1], e[2], llm, aggressive)

SpecReduce == ReduceInit /\ [][ReduceNext]_vars

\* --------------------------------------- the memory that buffers its writes
\* An OptimizedTokenBufferMemory built with an LLM, a cache service and the
\* conversation id "conv" (optimized_memory.py lines 69-71).
MaxSaves == 3
MaxFlushes == 2

self_conversation_id == <<"conv">>

\* optimized_memory.py line 121:
\* f"{self.conversation_id}:msg:{int(time.time())}:{i}"
batch_key(t, i) ==
    self_conversation_id \o <<":", "msg", ":", ToString(t), ":", ToString(i)>>

\* lines 122-126: json.dumps of the dict of input, output and timestamp; the
\* text carries the pair (named by the number of its input) and is as long
\* as the two texts and the rest of the dict.
batch_value(pair) == PyValue("str", pair[1][1], pair[1][2] + pair[2][2] + 60)

\* lines 118-126: batch_data, one key per pending pair, numbered from 0.
batch_data(pending_pairs, t) ==
    [key \in {batch_key(t, i - 1) : i \in 1..Len(pending_pairs)} |->
        batch_value(pending_pairs[
            CHOOSE i \in 1..Len(pending_pairs) : batch_key(t, i - 1) = key])]

\* line 108: len(self.pending_operations) >= 3
flush_due_at_four(pending_pairs) == Len(pending_pairs) >= 4

flush_due(pending_pairs) == Len(pending_pairs) >= 3

\* lines 135-137: pending_operations is reset only after a success.
after_flush_always(pending_pairs, success) == <<>>

after_flush(pending_pairs, success) ==
    IF success THEN <<>> ELSE pending_pairs

\* What Redis does with the pipeline of a flush: "ok" when every SET is
\* applied and acknowledged, "refused" when nothing is applied and a reply
\* is falsy, "lost" when pipe.execute() raises (no connection) and the
\* exception leaves multi_set, the flush and save_context.
Outcomes == {"ok", "refused", "lost"}

\* optimized_memory.py lines 111-140: _execute_batch_operations. The value is
\* the buffer, the counters and the keyspace after the call, and what the
\* flush did (nothing when the buffer is empty, lines 113-114).
_execute_batch_operations(pending_pairs, counters, ks, t, reply) ==
    IF pending_pairs = <<>>
    THEN [pending |-> pending_pairs, stats |-> counters, store |-> ks,
          flushed |-> <<>>]
    ELSE LET written == multi_set(ks, t, batch_data(pending_pairs, t),
                                  TtlNone, "user", <<"conversation">>)
             success == reply = "ok" /\ written.result.value
         IN [pending |-> after_flush(pending_pairs, success),
             stats |-> IF success
                       THEN [counters EXCEPT !.batch_operations = @ + 1]
                       ELSE counters,
             store |-> IF reply = "ok" THEN written.store ELSE ks,
             flushed |-> <<[offered |-> pending_pairs,
                            keys |-> [i \in 1..Len(pending_pairs) |->
                                        batch_key(t, i - 1)],
                            at |-> t,
                            reply |-> reply,
                            success |-> success]>>]

PersistInit ==
    /\ RequestIdle
    /\ PoolIdle
    /\ MemoryIdle
    /\ CacheIdle
    /\ ServiceIdle
    /\ chat_memory = <<>>
    /\ max_token_limit \in Budgets
    /\ rcall = [op |-> "none"]
    /\ tokens_saved = 0

\* optimized_memory.py lines 82-109: save_context on that memory. The pair
\* is appended to the buffer (line 97) and to the history (lines 100-101),
\* the reduction runs (line 104), and the buffer is flushed when three pairs
\* are pending (lines 107-109).
call_save_context_buffered(e, reply) ==
    /\ ncalls < MaxSaves
    /\ LET input == <<2 * ncalls + 1, e[1]>>
           output == <<2 * ncalls + 2, e[2]>>
           queued == Append(pending_operations, <<input, output>>)
           added == chat_memory
                \o <<Message("human", input[1], input[2]),
                     Message("ai", output[1], output[2])>>
           r == _dynamic_memory_reduction(added, max_token_limit, TRUE,
                    FALSE)
           f == IF flush_due(queued)
                THEN _execute_batch_operations(queued, stats, redis, clock,
                        reply)
                ELSE [pending |-> queued, stats |-> stats, store |-> redis,
                      flushed |-> <<>>]
       IN /\ flush_due(queued) \/ reply = "ok"
          /\ chat_memory' = r.messages
          /\ tokens_saved' = r.tokens_saved
          /\ rcall' = [op |-> "save_context", llm |-> TRUE,
                       aggressive |-> FALSE, messages |-> added]
          /\ pending_operations' = f.pending
          /\ stats' = f.stats
          /\ redis' = f.store
          /\ history' = history \o f.flushed
    /\ ncalls' = ncalls + 1
    /\ UNCHANGED <<max_token_limit, settings, clock, elapsed, category,
                   key_prefix, call, result, cpc, cursor, keys,
                   reqVars, batVars, poolVars, memVars>>

\* An explicit flush: await memory._execute_batch_operations().
call_execute_batch_operations(reply) ==
    /\ Len(history) < MaxFlushes
    /\ LET f == _execute_batch_operations(pending_operations, stats, redis,
                    clock, reply)
       IN /\ pending_operations' = f.pending
          /\ stats' = f.stats
          /\ redis' = f.store
          /\ history' = history \o f.flushed
    /\ UNCHANGED <<settings, clock, elapsed, ncalls, category, key_prefix,
                   call, result, cpc, cursor, keys,
                   reqVars, batVars, poolVars, memVars, redVars>>

\* A second passes on the clock int(time.time()) reads.
Tick ==
    /\ elapsed < MaxElapse
    /\ elapsed' = elapsed + 1
    /\ clock' = clock + 1
    /\ UNCHANGED <<redis, ncalls, category, key_prefix, call, result, cpc,
                   cursor, keys, nonCacheVars>>

PersistNext ==
    \/ \E e \in SavedExchanges, reply \in Outcomes :
        call_save_context_buffered(e, reply)
    \/ \E reply \in Outcomes : call_execute_batch_operations(reply)
    \/ Tick

SpecPersist == PersistInit /\ [][PersistNext]_vars

\* ------------------------------------------------------ batch_save_context
MaxChatPairs == 3

\* memory_optimizer.py line 27: ttl: int = 3600
default_ttl == 3600

\* line 56: f"chat_history:{conversation_id}:{int(time.time())}"
chat_history_key(conv, t) == <<"chat_history", ":", conv, ":", ToString(t)>>

\* line 57: the value of the SET is ai_msg, the text as it is.
Text(text) ==
    [fmt |-> "ascii", head |-> <<111>>,
     text |-> [jtype |-> "none", data |-> text[1], size |-> text[2]]]

\* lines 53-57: the SET commands queued on the pipeline, one per pair, in
\* the order of chat_pairs.
queued_sets(chat_pairs, conv, t) ==
    [i \in 1..Len(chat_pairs) |->
        [name |-> chat_history_key(conv, t), value |-> Text(chat_pairs[i][2])]]

\* line 60: pipe.execute() applies the queued commands in order.
RECURSIVE pipe_execute(_, _, _, _)
pipe_execute(ks, t, commands, ex) ==
    IF commands = <<>> THEN ks
    ELSE pipe_execute(redis_set(ks, t, Head(commands).name,
                                Head(commands).value, ex),
                      t, Tail(commands), ex)

\* lines 45-50: memory.save_context of every pair adds its two messages to
\* the history of the memory.
RECURSIVE saved_messages(_)
saved_messages(chat_pairs) ==
    IF chat_pairs = <<>> THEN <<>>
    ELSE <<Message("human", Head(chat_pairs)[1][1], Head(chat_pairs)[1][2]),
           Message("ai", Head(chat_pairs)[2][1], Head(chat_pairs)[2][2])>>
            \o saved_messages(Tail(chat_pairs))

\* lines 22-63: batch_save_context(memory, chat_pairs, redis_client,
\* conversation_id, ttl). The value is the history of the memory and the
\* keyspace after the call; when pipe.execute() raises ("lost") nothing is
\* stored and the exception leaves the function.
batch_save_context(messages, ks, t, chat_pairs, conv, ttl, reply) ==
    [messages |-> messages \o saved_messages(chat_pairs),
     store |-> IF reply = "ok"
               THEN pipe_execute(ks, t, queued_sets(chat_pairs, conv, t), ttl)
               ELSE ks,
     result |-> IF reply = "ok" THEN Return(None)
                ELSE Raise("ConnectionError")]

\* The k pairs of a call: texts of 16 characters, numbered across the calls.
ChatPairs(k, first) ==
    [i \in 1..k |-> <<<<first + 2 * i - 1, 16>>, <<first + 2 * i, 16>>>>]

\* A caller saves k pairs of one conversation on a memory whose budget the
\* pairs never reach (max_token_limit=2000).
call_batch_save_context(k, conv, reply) ==
    /\ CanCall
    /\ LET chat_pairs == ChatPairs(k, 2 * (MaxChatPairs + 1) * ncalls)
           r == batch_save_context(chat_memory, redis, clock, chat_pairs,
                                   conv, default_ttl, reply)
       IN /\ chat_memory' = r.messages
          /\ redis' = r.store
          /\ result' = r.result
          /\ call' = [op |-> "batch_save_context", conversation_id |-> conv,
                      chat_pairs |-> chat_pairs,
                      keys |-> [i \in 1..k |-> chat_history_key(conv, clock)]]
    /\ ncalls' = ncalls + 1
    /\ UNCHANGED <<max_token_limit, rcall, tokens_saved, clock, elapsed,
                   category, key_prefix, cpc, cursor, keys,
                   reqVars, batVars, poolVars, memVars, svcVars>>

BatchSaveInit ==
    /\ RequestIdle
    /\ PoolIdle
    /\ MemoryIdle
    /\ CacheIdle
    /\ ServiceIdle
    /\ chat_memory = <<>>
    /\ max_token_limit = 2000
    /\ rcall = [op |-> "none"]
    /\ tokens_saved = 0

BatchSaveNext ==
    \/ \E k \in 0..MaxChatPairs, conv \in ConversationIds,
          reply \in {"ok", "lost"} :
            call_batch_save_context(k, conv, reply)
    \/ Tick

SpecBatchSave == BatchSaveInit /\ [][BatchSaveNext]_vars

\* =================================================================== claims
Before(a, b) == FirstAt(a) > 0 /\ FirstAt(a) < FirstAt(b)

\* C1: in every run of server_cursor in which a connection was acquired, the
\* connection is released to the pool exactly once, whatever the outcome:
\* never twice, never while the run has ended without a release, and never
\* without having been acquired.
C1_ReleaseCount ==
    op = "server_cursor" =>
        /\ Count("release") <= 1
        /\ (Count("release") = 1 <=> conn = "released")
        /\ (conn = "released" => Before("acquire", "release"))
        /\ (pc = "done" /\ conn # "none" => Count("release") = 1)

C1_ReleasedExactlyOnce ==
    /\ []C1_ReleaseCount
    /\ (op = "server_cursor" /\ conn = "held") ~> (conn = "released")

\* C1 witness: the consumer stopped early after a batch; released once.
C1_Witness ==
    /\ op = "server_cursor" /\ pc = "done"
    /\ outcome = "GeneratorExit"
    /\ Len(batches) >= 1
    /\ Count("release") = 1

\* C2: when DECLARE, a FETCH or COMMIT raised, tr.rollback() is called before
\* the connection is released (and the transaction is rolled back unless the
\* rollback itself failed) and the caller gets that original error, not the
\* rollback's; when the loop ended on an empty batch and nothing failed, the
\* transaction is committed before the connection is released.
C2_RollbackOrCommitBeforeRelease ==
    op = "server_cursor" /\ pc = "done" /\ conn = "released" =>
        /\ (raised # <<>> /\ raised[1] \in {"DeclareError", "FetchError",
                                           "CommitError"}) =>
                /\ Count("tr.rollback") = 1
                /\ Before("tr.rollback", "release")
                /\ outcome = raised[1]
                /\ ("RollbackError" \notin {raised[j] : j \in 1..Len(raised)}
                        => tx = "rolledback")
        /\ raised = <<>> =>
                /\ cursorPos = Len(table)
                /\ tx = "committed"
                /\ Before("tr.commit", "release")
                /\ Count("tr.rollback") = 0
                /\ outcome = "ok"

\* C2 witness: a FETCH failed after a batch was yielded and the rollback
\* failed too; the caller still sees the FETCH error.
C2_Witness ==
    /\ op = "server_cursor" /\ pc = "done"
    /\ raised = <<"FetchError", "RollbackError">>
    /\ Len(batches) >= 1
    /\ outcome = "FetchError"

\* C3: when the consumer stops early or its task is cancelled after at least
\* one batch was yielded, the transaction is committed or rolled back before
\* the connection is released.
C3_EarlyStopEndsTransaction ==
    ( /\ op = "server_cursor"
      /\ conn = "released"
      /\ Len(batches) >= 1
      /\ exc \in {"GeneratorExit", "CancelledError"} )
        => tx \in {"committed", "rolledback"}

\* C4: for N rows and batch size B with 1 <= B < N, fetch_large_dataset
\* yields exactly the N rows, each once, in the order of a plain fetch.
C4_StreamYieldsAllRows ==
    ( /\ op = "fetch_large_dataset"
      /\ pc = "done"
      /\ batch_size < Len(table) )
        => /\ outcome = "ok"
           /\ rowsOut = svc_result("fetch", table)

\* The generator body of server_cursor, driven to exhaustion, hands out the
\* rows of the query in order, in batches of 1..batch_size rows, and stops
\* at the first empty FETCH.
sc_YieldsAllRows ==
    (op = "server_cursor" /\ pc = "done" /\ outcome = "ok") =>
        /\ Flatten(batches) = table
        /\ \A j \in 1..Len(batches) : Len(batches[j]) \in 1..batch_size
        /\ Count("FETCH") = Len(batches) + 1

\* C5: a body run through PostgresService.transaction() gets one connection
\* and a transaction; when the body completes all its statements are
\* committed, when it raises none of them remains; the connection is
\* released afterwards in both cases.
C5_TransactionAllOrNothing ==
    op \in TransactionOps /\ pc = "done" /\ "PoolTimeout" # outcome =>
        /\ Count("acquire") = 1
        /\ tx \in {"committed", "rolledback"}
        /\ (body = <<>> => db = Rows(Len(db)) /\ db # <<>> /\ outcome = "ok")
        /\ (body # <<>> => db = <<>>)
        /\ Count("release") = 1

\* The items of the batches that lie wholly before offset start.
ItemsBefore(start) == SubSeq(items, 1, Min(start, Len(items)))

\* C6: when an item of batch k fails, the items of batches 1..k-1 are committed
\* and no item of batch k (those executed before the failing one included)
\* nor of a later batch is; the error propagates and no later batch starts.
C6_FailedBatchLeavesEarlierBatches ==
    ( /\ op = "execute_in_batches"
      /\ raised # <<>>
      /\ raised[1] = "StatementError"
      /\ pc \in {"b_release", "done"} )
        => /\ db = ItemsBefore(batch_i)
           /\ pending = <<>>
           /\ Count("acquire") = (batch_i \div batch_size) + 1
           /\ (pc = "done" => outcome = "StatementError")
           /\ ~ ENABLED bat_loop

\* C6 witness: the second batch failed at its second item.
C6_Witness ==
    /\ op = "execute_in_batches" /\ pc = "done"
    /\ outcome = "StatementError"
    /\ batch_i > 0
    /\ batch_k > 0

\* Number of items in the first j batches.
ItemsInBatches(j) == Min(j * batch_size, Len(items))

\* C7: on_batch_complete is called once after each committed batch, in batch
\* order, never for a batch that did not commit, with (items in all batches
\* committed so far, len(items)); when every batch succeeds the last call
\* has processed = total and the function returns len(items).
C7_ProgressAfterEachCommittedBatch ==
    op = "execute_in_batches" =>
        /\ \A j \in 1..Len(progress) :
                progress[j] = <<ItemsInBatches(j), Len(items)>>
        /\ ItemsInBatches(Len(progress)) <= Len(db)
        /\ (pc \in {"loop", "b_acquire", "b_tr_start", "b_exec", "b_tr_exit"}
                => ItemsInBatches(Len(progress)) = Len(db))
        /\ (pc = "done" /\ outcome = "ok" =>
                /\ ItemsInBatches(Len(progress)) = Len(items)
                /\ db = items
                /\ processed_items = Len(items))

\* C7 witness: every batch went through, the last one a short batch.
C7_Witness ==
    /\ op = "execute_in_batches" /\ pc = "done" /\ outcome = "ok"
    /\ Len(progress) >= 2
    /\ Len(items) % batch_size # 0

\* C8: concurrent first calls of get_pool (no close_pool so far) create the
\* pool at most once, and every caller receives the same pool.
C8_PoolCreatedOnce ==
    (\A p \in 1..Len(pools) : closeCalls[p] = 0) =>
        /\ Len(pools) <= 1
        /\ \A r1, r2 \in returns : r1[2] = r2[2]

\* C9: get_pool never returns a pool that is being closed or is closed, each
\* pool is closed at most once, and _pool never holds a closed pool, so a
\* get_pool after a completed close_pool creates a fresh one.
C9_NoClosedPoolReturned ==
    /\ \A r \in returns : r[3] = "open"
    /\ \A p \in 1..Len(pools) : closeCalls[p] <= 1
    /\ (_pool # 0 => pools[_pool] # "closed")

\* C10: when the acquisition times out in server_cursor or in a
\* PostgresService operation, the caller gets that error after the single
\* attempt: no transaction, no statement, no release.
C10_PoolTimeoutSurfaces ==
    ( /\ op \in {"server_cursor", "transaction"} \cup ServiceOps
      /\ "PoolTimeout" \in {raised[j] : j \in 1..Len(raised)} )
        => /\ pc = "done"
           /\ outcome = "PoolTimeout"
           /\ events = <<"acquire">>
           /\ tx = "none"
           /\ conn = "none"
           /\ db = <<>>

\* C10 witness: the streaming cursor could not get a connection.
C10_Witness ==
    /\ op = "server_cursor"
    /\ pc = "done"
    /\ raised = <<"PoolTimeout">>

\* ------------------------------------------------------------ cache claims
\* The expiry the specification gives a written key: the ttl argument when
\* one is passed, else the default of the category.
ClaimedTtl(ttl, cat) ==
    IF ttl # TtlNone THEN ttl
    ELSE CASE cat = "static" -> 604800
           [] cat = "reference" -> 86400
           [] cat = "user" -> 3600
           [] cat = "session" -> 1800
           [] cat = "volatile" -> 300

Name(key) == _format_key(key, key_prefix)

\* The step is a call of the operation o.
Calls(o) == ncalls' = ncalls + 1 /\ call'.op = o

\* The last call was a successful set of the key and no time has passed
\* since: the key has its whole lifetime left.
JustSet(key) ==
    /\ call.op = "set"
    /\ call.key = key
    /\ result = Return(TRUE)
    /\ Name(key) \in DOMAIN redis
    /\ redis[Name(key)].exp - clock = ClaimedTtl(call.ttl, category)

\* What JSON makes of a value: a tuple is read back as a list.
AsJson(v) == IF v.type = "tuple" THEN PyValue("list", v.data, v.size) ELSE v

\* C11 as stated: get(k) immediately after a successful set(k, v) returns a
\* value equal to v, for every serializable v, compressed or not.
C11_GetAfterSetReturnsValue ==
    [][ \A key \in LogicalKeys :
            (JustSet(key) /\ Calls("get") /\ call'.key = key)
                => result' = Return(call.value) ]_vars

\* C11 amended: get(k) immediately after a successful set(k, v) returns v
\* as JSON reads it back, compressed or not: a value equal to v unless v is
\* a tuple, and the list of v's elements when it is.
C11_GetAfterSetReturnsJsonValue ==
    [][ \A key \in LogicalKeys :
            (JustSet(key) /\ Calls("get") /\ call'.key = key)
                => result' = Return(AsJson(call.value)) ]_vars

\* C11 witness: get has returned the list that was stored compressed.
C11_Witness ==
    /\ call.op = "get"
    /\ Name(call.key) \in DOMAIN redis
    /\ redis[Name(call.key)].value.fmt = "zlib"
    /\ result = Return(PyValue("list", 2, compression_threshold + 1))

\* C12: set and multi_set store every key they write, and its ":meta"
\* sibling when they write one, with an expiry of the ttl argument when one
\* is passed and of the category's default (604800, 86400, 3600, 1800 or
\* 300 seconds) otherwise.
C12_WrittenWithEffectiveTtl ==
    [][ /\ (Calls("set") /\ result' = Return(TRUE)) =>
            LET expiry == clock' + ClaimedTtl(call'.ttl, category) IN
            /\ Name(call'.key) \in DOMAIN redis'
            /\ redis'[Name(call'.key)].exp = expiry
            /\ redis'[Name(call'.key)].value.fmt = "zlib" =>
                /\ meta_key(Name(call'.key)) \in DOMAIN redis'
                /\ redis'[meta_key(Name(call'.key))].exp = expiry
        /\ Calls("multi_set") =>
            LET expiry == clock' + ClaimedTtl(call'.ttl, category) IN
            \A key \in DOMAIN call'.items :
                call'.items[key].type # "object" =>
                    /\ Name(key) \in DOMAIN redis'
                    /\ redis'[Name(key)].exp = expiry
                    /\ redis'[Name(key)].value.fmt = "zlib" =>
                        /\ meta_key(Name(key)) \in DOMAIN redis'
                        /\ redis'[meta_key(Name(key))].exp = expiry
      ]_vars

\* C12 witness: a set without ttl in category STATIC has stored a compressed
\* value; its sibling key expires in 604800 seconds.
C12_Witness ==
    /\ call.op = "set"
    /\ call.ttl = TtlNone
    /\ category = "static"
    /\ meta_key(Name(call.key)) \in DOMAIN redis
    /\ redis[meta_key(Name(call.key))].exp = clock + 604800

\* C13: whenever the ":meta" sibling of a key is live, the key itself is
\* live, holds compressed bytes and expires at the same time (keys another
\* client overwrote are left out).
C13_MetaHasCompressedPrimary ==
    \A key \in LogicalKeys :
        ( /\ meta_key(Name(key)) \in DOMAIN redis
          /\ ~( /\ Name(key) \in DOMAIN redis
                /\ redis[Name(key)].value = Garbled ) )
            => /\ Name(key) \in DOMAIN redis
               /\ redis[Name(key)].value.fmt = "zlib"
               /\ redis[Name(key)].exp = redis[meta_key(Name(key))].exp

\* The items of a multi_set that json.dumps rejects.
Failing(entries) == {key \in DOMAIN entries : entries[key].type = "object"}

\* C14: multi_set returns False whenever one of its items fails to
\* serialize.
C14_MultiSetFalseOnFailure ==
    (call.op = "multi_set" /\ Failing(call.items) # {})
        => (result.status = "return" /\ result.value = FALSE)

\* The step leaves the key of that name as it was.
Untouched(name) ==
    /\ name \in DOMAIN redis' <=> name \in DOMAIN redis
    /\ name \in DOMAIN redis => redis'[name] = redis[name]

\* A multi_set with a failing item writes every other item with the
\* effective TTL and writes nothing for the failing one.
C15_Write ==
    (Calls("multi_set") /\ Failing(call'.items) # {}) =>
        \A key \in DOMAIN call'.items :
            IF key \in Failing(call'.items)
            THEN Untouched(Name(key)) /\ Untouched(meta_key(Name(key)))
            ELSE /\ Name(key) \in DOMAIN redis'
                 /\ redis'[Name(key)].exp =
                        clock' + ClaimedTtl(call'.ttl, category)

\* The last call was a multi_set with a failing item and no time has
\* passed since.
JustMultiSet ==
    /\ call.op = "multi_set"
    /\ Failing(call.items) # {}
    /\ \A key \in DOMAIN call.items \ Failing(call.items) :
        /\ Name(key) \in DOMAIN redis
        /\ redis[Name(key)].exp - clock = ClaimedTtl(call.ttl, category)

\* A multi_get of the other items that follows returns Read(v) for each
\* item v.
C15_Read(Read(_)) ==
    ( /\ JustMultiSet
      /\ Calls("multi_get")
      /\ call'.keys # {}
      /\ call'.keys \subseteq DOMAIN call.items \ Failing(call.items) )
        => /\ result'.status = "return"
           /\ DOMAIN result'.value = call'.keys
           /\ \A key \in call'.keys :
                result'.value[key] = Read(call.items[key])

\* C15 as stated: in a multi_set an item that fails to serialize does not
\* abort the others: they are written with the effective TTL and a
\* following multi_get of their keys returns their values; the failing
\* item writes neither its key nor its ":meta" sibling.
C15_FailingItemDoesNotAbort ==
    [][C15_Write /\ C15_Read(LAMBDA v : v)]_vars

\* C15 amended: the same, the following multi_get returning the values as
\* JSON reads them back (a tuple comes back as a list).
C15_FailingItemDoesNotAbortJson ==
    [][C15_Write /\ C15_Read(AsJson)]_vars

\* C15 witness: a multi_set with an item json.dumps rejects has written
\* another item.
C15_Witness ==
    /\ call.op = "multi_set"
    /\ Failing(call.items) # {}
    /\ \E key \in DOMAIN call.items \ Failing(call.items) :
        Name(key) \in DOMAIN redis
    /\ \E key \in Failing(call.items) : Name(key) \notin DOMAIN redis

\* C16: set with a value that json.dumps rejects returns False, raises
\* nothing and leaves the store unchanged.
C16_SetUnserializableReturnsFalse ==
    [][ (Calls("set") /\ call'.value.type = "object")
            => /\ result'.status = "return"
               /\ result'.value = FALSE
               /\ redis' = redis ]_vars

\* C16 witness: such a set has returned False on a keyspace that holds a
\* key.
C16_Witness ==
    /\ call.op = "set"
    /\ call.value.type = "object"
    /\ result.status = "return"
    /\ result.value = FALSE
    /\ DOMAIN redis # {}

RawBytes(value) == PyValue("bytes", value.text.data, value.text.size)

\* C18: a stored value that starts with the sentinel and cannot be
\* decompressed does not fail get or multi_get: no exception reaches the
\* caller and the raw stored bytes are what the read returns.
C18_GarbledReadReturnsRaw ==
    [][ /\ \A key \in LogicalKeys :
            ( /\ Calls("get")
              /\ call'.key = key
              /\ Name(key) \in DOMAIN redis
              /\ redis[Name(key)].value = Garbled )
                => /\ result'.status = "return"
                   /\ result'.value = RawBytes(Garbled)
        /\ \A key \in LogicalKeys :
            ( /\ Calls("multi_get")
              /\ key \in call'.keys
              /\ Name(key) \in DOMAIN redis
              /\ redis[Name(key)].value = Garbled )
                => /\ result'.status = "return"
                   /\ result'.value[key] = RawBytes(Garbled) ]_vars

\* C19: delete(key) removes the key and its ":meta" sibling and returns 1
\* if the key existed and 0 otherwise.
C19_DeleteReturnsOneOrZero ==
    [][ \A key \in LogicalKeys :
            (Calls("delete") /\ call'.key = key)
                => /\ Name(key) \notin DOMAIN redis'
                   /\ meta_key(Name(key)) \notin DOMAIN redis'
                   /\ result'.status = "return"
                   /\ result'.value =
                        IF Name(key) \in DOMAIN redis THEN 1 ELSE 0 ]_vars

\* The live keys that match the pattern of the delete_pattern under way.
Matched ==
    {name \in DOMAIN redis :
        GlobMatch(_format_key(call.pattern, key_prefix), name)}

\* C20: delete_pattern leaves its scan loop at cursor 0 and then returns:
\* no key that matches the pattern and no ":meta" sibling of a matched key
\* remains, every other key is untouched, and the result is the number of
\* keys removed.
C20_DeletePatternRemovesMatches ==
    [][ (cpc = "delete" /\ cpc' = "idle") =>
            /\ cursor = 0
            /\ \A name \in Matched :
                /\ name \notin DOMAIN redis'
                /\ meta_key(name) \notin DOMAIN redis'
            /\ \A name \in DOMAIN redis :
                (name \notin Matched \cup {meta_key(n) : n \in Matched})
                    => Untouched(name)
            /\ result'.status = "return"
            /\ result'.value =
                Cardinality(DOMAIN redis) - Cardinality(DOMAIN redis') ]_vars

\* ------------------------------------------------- claims on meta_agent.py
\* A step that is one get_conv_token_buffer_memory call.
Materializes == materialized' = materialized + 1

\* The arguments of the call a step makes.
CallKey == <<mcall'.conversation_id, mcall'.n>>
CallMessages == SubSeq(conversation, 1, mcall'.n)

\* The message counts recorded in the index for the conversation of the call.
RecordedCounts ==
    {k[2] : k \in {x \in DOMAIN _memory_cache : x[1] = CallKey[1]}}

\* The contents a memory object holds, oldest first: the input of every
\* saved exchange and its output unless that is the empty string.
RECURSIVE Held(_)
Held(saved) ==
    IF saved = <<>> THEN <<>>
    ELSE <<Head(saved)[1]>>
            \o (IF Head(saved)[2] = <<>> THEN <<>> ELSE <<Head(saved)[2]>>)
            \o Held(Tail(saved))

Contents(messages) == [k \in 1..Len(messages) |-> messages[k].content]

\* C21: when the snapshot index already holds an entry for
\* (conversation_id, len(messages)), get_conv_token_buffer_memory returns
\* that stored snapshot, processes no message and leaves the index (and the
\* snapshot itself) unchanged.
C21_HitReturnsStoredSnapshot ==
    [][(Materializes /\ CallKey \in DOMAIN _memory_cache)
        => /\ memory' = _memory_cache[CallKey]
           /\ processed' = <<>>
           /\ _memory_cache' = _memory_cache
           /\ memories' = memories]_vars

\* A second call with the same conversation id and count was answered from
\* the index.
C21_Witness ==
    /\ materialized > 1
    /\ <<mcall.conversation_id, mcall.n>> \in DOMAIN _memory_cache
    /\ processed = <<>>
    /\ memory = _memory_cache[<<mcall.conversation_id, mcall.n>>]

\* C22: when the index holds snapshots of the same conversation only at
\* smaller message counts, materializing n messages runs the pairing routine
\* on exactly messages[p:], p being the largest recorded count below n,
\* appends what it produces to that snapshot and records the result under
\* (conversation_id, n); with no recorded snapshot for the conversation it
\* runs the pairing routine over all n messages on an empty history.
C22_DeltaOnlyIsProcessed ==
    [][Materializes =>
        /\ (/\ RecordedCounts # {}
            /\ \A c \in RecordedCounts : c < mcall'.n)
            => LET p == CHOOSE c \in RecordedCounts :
                            \A d \in RecordedCounts : d <= c
                   delta == SubSeq(CallMessages, p + 1, mcall'.n)
                   before == memories[_memory_cache[<<CallKey[1], p>>]].saved
               IN /\ processed' = <<delta>>
                  /\ Len(delta) = mcall'.n - p
                  /\ DOMAIN _memory_cache' = DOMAIN _memory_cache \cup {CallKey}
                  /\ _memory_cache'[CallKey] = memory'
                  /\ Len(memories'[memory'].saved) >= Len(before)
                  /\ SubSeq(memories'[memory'].saved, 1, Len(before)) = before
                  /\ Held(memories'[memory'].saved)
                        = Held(before) \o Contents(delta)
        /\ RecordedCounts = {}
            => /\ processed' = <<CallMessages>>
               /\ memory' = Len(memories) + 1
               /\ Held(memories'[memory'].saved) = Contents(CallMessages)]_vars

\* A call found a snapshot at a smaller count and processed fewer messages
\* than it was given.
C22_Witness ==
    /\ materialized > 1
    /\ processed # <<>>
    /\ Len(processed[1]) > 0
    /\ Len(processed[1]) < mcall.n
    /\ _memory_cache[<<mcall.conversation_id, mcall.n>>] = memory

\* C23: a delta materialization leaves the snapshot recorded at the smaller
\* count unchanged: a materialization answered from the index at count p
\* returns a history holding only the first p messages.
C23_HitHoldsOnlyItsMessages ==
    (materialized > 0 /\ processed = <<>>)
        => Held(memories[memory].saved)
                = Contents(SubSeq(conversation, 1, mcall.n))

\* What the pairing routine must record for a list of messages: the entries
\* cover the messages left to right, each message in exactly one entry; an
\* entry of two is a user message and the assistant message right after it;
\* an entry of one is any message that is not a user message directly
\* followed by an assistant message, with an empty counterpart.
RECURSIVE Paired(_, _)
Paired(saved, messages) ==
    IF saved = <<>> THEN messages = <<>>
    ELSE /\ messages # <<>>
         /\ Head(saved)[1] = messages[1].content
         /\ LET follows == /\ messages[1].type = "human"
                           /\ Len(messages) > 1
                           /\ messages[2].type = "ai"
            IN IF follows
               THEN /\ Head(saved)[2] = messages[2].content
                    /\ Paired(Tail(saved), Tail(Tail(messages)))
               ELSE /\ Head(saved)[2] = <<>>
                    /\ Paired(Tail(saved), Tail(messages))

\* C24: the pairing routine scans the messages left to right and consumes
\* every message exactly once: a user message immediately followed by an
\* assistant message is recorded as one pair, any other message is recorded
\* alone with an empty counterpart; [U1, A1, U2] gives [(U1, A1), (U2, "")].
C24_PairingPolicy ==
    [][(Materializes /\ processed' # <<>>) =>
        LET base == IF memory' \in 1..Len(memories)
                    THEN memories[memory'].saved ELSE <<>>
            new == memories'[memory'].saved
        IN /\ Len(new) >= Len(base)
           /\ SubSeq(new, 1, Len(base)) = base
           /\ Paired(SubSeq(new, Len(base) + 1, Len(new)), processed'[1])
           /\ (/\ Len(processed'[1]) = 3
               /\ [k \in 1..3 |-> processed'[1][k].type]
                    = <<"human", "ai", "human">>)
               => SubSeq(new, Len(base) + 1, Len(new))
                    = <<<<processed'[1][1].content, processed'[1][2].content>>,
                        <<processed'[1][3].content, <<>>>>>>]_vars

\* [U1, A1, U2] was materialized from empty.
C24_Witness ==
    /\ memory # 0
    /\ mcall.n = 3
    /\ processed = <<SubSeq(conversation, 1, 3)>>
    /\ [k \in 1..3 |-> conversation[k].type] = <<"human", "ai", "human">>
    /\ memories[memory].saved = <<<<<<1>>, <<2>>>>, <<<<3>>, <<>>>>>>

\* ------------------------- claims on memory_optimizer.py, optimized_memory.py
\* The reduction that ran: the standalone dynamic_memory_reduction, or the one
\* an OptimizedTokenBufferMemory with an LLM runs in save_context.
Standalone == rcall.op = "dynamic_memory_reduction"
Optimized == rcall.op = "save_context" /\ rcall.llm

\* Token cost of the history the reduction counted, and of the history it
\* left.
CostBefore == token_count(rcall.messages)
CostAfter == token_count(chat_memory)

\* The cost was above max_token_limit * 0.85.
Triggered == CostBefore * 100 > max_token_limit * 85

Unchanged == chat_memory = rcall.messages

\* C25: dynamic_memory_reduction is a no-op whenever the total token cost is
\* at most budget * threshold: it returns 0 and leaves the message list
\* unchanged.
C25_NoOpAtOrBelowThreshold ==
    (Standalone /\ ~Triggered) => (tokens_saved = 0 /\ Unchanged)

\* A history exactly at the threshold that ends with an unanswered user
\* message was left alone.
C25_Witness ==
    /\ Standalone
    /\ CostBefore * 100 = max_token_limit * 85
    /\ rcall.messages[Len(rcall.messages)].type = "human"
    /\ tokens_saved = 0
    /\ Unchanged

\* C26 as stated: with a budget of 100 tokens and a threshold of 0.85, reduce
\* applied to any history whose token cost is 95 returns 0 and leaves the
\* history unchanged.
C26_NoOpAtCost95 ==
    (Standalone /\ max_token_limit = 100 /\ CostBefore = 95)
        => (tokens_saved = 0 /\ Unchanged)

\* A history made only of system messages and of exchanges (a user message
\* directly followed by an assistant message).
OnlySystemAndExchanges(messages) ==
    \A k \in 1..Len(messages) :
        /\ messages[k].type = "human"
            => k < Len(messages) /\ messages[k + 1].type = "ai"
        /\ messages[k].type = "ai"
            => k > 1 /\ messages[k - 1].type = "human"

\* C26 amended: with a budget of 100 tokens and a threshold of 0.85, reduce
\* returns 0 and leaves the history unchanged when the cost is at most 85; a
\* history whose cost is 95 is above the trigger, so it is rebuilt from its
\* system messages and its exchanges, and reduce returns 95 minus the cost
\* of the rebuilt history.
C26_ReducesAtCost95 ==
    (Standalone /\ max_token_limit = 100)
        => /\ CostBefore <= 85 => (tokens_saved = 0 /\ Unchanged)
           /\ CostBefore = 95
                => /\ OnlySystemAndExchanges(chat_memory)
                   /\ tokens_saved = 95 - CostAfter

\* A history of cost 95 lost messages to the reduction.
C26_Witness ==
    /\ Standalone
    /\ max_token_limit = 100
    /\ CostBefore = 95
    /\ tokens_saved > 0
    /\ ~Unchanged

\* The exchanges of a history: the positions of the user messages that are
\* directly followed by an assistant message.
ExchangesOf(messages) ==
    {k \in 1..(Len(messages) - 1) :
        messages[k].type = "human" /\ messages[k + 1].type = "ai"}

\* The most recent three of them, or all when there are fewer.
RecentExchanges(messages) ==
    {k \in ExchangesOf(messages) :
        Cardinality({j \in ExchangesOf(messages) : j > k}) < 3}

\* C27: whenever the reduction trims, the resulting history contains every
\* system message of the original and the most recent 3 user/assistant
\* pairs of the original verbatim (all pairs when there are fewer), wherever
\* the system messages sit.
C27_SystemAndRecentPairsKept ==
    ((Standalone \/ Optimized) /\ Triggered)
        => /\ \A k \in 1..Len(rcall.messages) :
                rcall.messages[k].type = "system"
                    => \E j \in 1..Len(chat_memory) :
                            chat_memory[j] = rcall.messages[k]
           /\ \A k \in RecentExchanges(rcall.messages) :
                \E j \in 1..(Len(chat_memory) - 1) :
                    /\ chat_memory[j] = rcall.messages[k]
                    /\ chat_memory[j + 1] = rcall.messages[k + 1]

\* C28: whenever the cost exceeds budget * threshold, the non-aggressive
\* reduction saves a positive number of tokens and leaves a history whose
\* cost is at most budget * 0.75, for the standalone reduce and for the
\* reduction an OptimizedTokenBufferMemory runs after save_context.
C28_ReducedToTarget ==
    ((Standalone \/ Optimized) /\ ~rcall.aggressive /\ Triggered)
        => /\ tokens_saved > 0
           /\ CostAfter * 100 <= max_token_limit * 75

\* The position a retained message had in the history that was reduced.
Origin(m) == m.content[1]

\* C29: after any reduction the retained conversational messages form
\* intact exchanges: a retained user message is directly followed by the
\* assistant message that followed it in the original, a retained assistant
\* message is directly preceded by its user message, the retained messages
\* keep their original relative order, and only the most recent, unanswered
\* user message may stand alone.
C29_RetainedExchangesIntact ==
    ((Standalone \/ Optimized) /\ Triggered)
        => /\ \A j \in 1..Len(chat_memory) :
                /\ Origin(chat_memory[j]) \in 1..Len(rcall.messages)
                /\ chat_memory[j] = rcall.messages[Origin(chat_memory[j])]
                /\ chat_memory[j].type = "human"
                    => \/ /\ j < Len(chat_memory)
                          /\ chat_memory[j + 1].type = "ai"
                          /\ Origin(chat_memory[j + 1])
                                = Origin(chat_memory[j]) + 1
                       \/ /\ Origin(chat_memory[j]) = Len(rcall.messages)
                          /\ j = Len(chat_memory)
                /\ chat_memory[j].type = "ai"
                    => /\ j > 1
                       /\ chat_memory[j - 1].type = "human"
                       /\ Origin(chat_memory[j - 1])
                            = Origin(chat_memory[j]) - 1
           /\ \A i, j \in 1..Len(chat_memory) :
                (/\ i < j
                 /\ chat_memory[i].type # "system"
                 /\ chat_memory[j].type # "system")
                    => Origin(chat_memory[i]) < Origin(chat_memory[j])

\* A history of at least five exchanges and a system message was reduced to
\* sampled and recent exchanges.
C29_Witness ==
    /\ Standalone \/ Optimized
    /\ Triggered
    /\ Cardinality(ExchangesOf(rcall.messages)) >= 5
    /\ \E k \in 1..Len(rcall.messages) : rcall.messages[k].type = "system"
    /\ Cardinality(ExchangesOf(chat_memory)) >= 4
    /\ Len(chat_memory) < Len(rcall.messages)

\* C30: dynamic_memory_reduction returns exactly the token cost before minus
\* the token cost after, which is never negative: the reduced history holds
\* only messages of the original history, each at most once.
C30_ReturnsCostDifference ==
    Standalone
        => /\ tokens_saved = CostBefore - CostAfter
           /\ tokens_saved >= 0
           /\ \A j \in 1..Len(chat_memory) :
                /\ \E k \in 1..Len(rcall.messages) :
                        chat_memory[j] = rcall.messages[k]
                /\ \A i \in 1..Len(chat_memory) :
                        chat_memory[i] = chat_memory[j] => i = j

\* A reduction dropped messages, kept others, and returned what it saved.
C30_Witness ==
    /\ Standalone
    /\ Triggered
    /\ chat_memory # <<>>
    /\ Len(chat_memory) < Len(rcall.messages)
    /\ tokens_saved > 0
    /\ tokens_saved = CostBefore - CostAfter

\* The k-th exchange of a history, counted from 0 in the order of the history.
NthExchange(messages, k) ==
    CHOOSE e \in ExchangesOf(messages) :
        Cardinality({j \in ExchangesOf(messages) : j < e}) = k

\* The exchanges older than the most recent three.
OlderCount(messages) == Cardinality(ExchangesOf(messages)) - 3

\* The stride the sampling of c older pairs is stated to use.
StatedStride(c, aggressive) ==
    LET floored == IF aggressive THEN (c * 3) \div 10 ELSE c \div 2
        sample == IF floored > 1 THEN floored ELSE 1
    IN  IF c \div sample > 1 THEN c \div sample ELSE 1

\* The exchanges the reduction is stated to keep: the older ones at the
\* positions 0, s, 2s, ... and the most recent three.
StatedKept(messages, aggressive) ==
    {NthExchange(messages, p) :
        p \in {q \in 0..(OlderCount(messages) - 1) :
                q % StatedStride(OlderCount(messages), aggressive) = 0}}
        \cup RecentExchanges(messages)

\* The messages of a history that are no system messages.
Conversational(messages) ==
    {j \in 1..Len(messages) : messages[j].type # "system"}

\* C31: among the c pairs older than the 3 most recent (c >= 1), reduce
\* keeps exactly the pairs at positions 0, s, 2s, ... below c, where
\* s = c div max(1, floor(c * rate)) (at least 1) and rate is 0.5 in normal
\* mode and 0.3 in aggressive mode; the kept older pairs precede the recent
\* pairs and keep their original order.
C31_OlderPairsSampledAtStride ==
    (Standalone /\ Triggered /\ OlderCount(rcall.messages) >= 1)
        => /\ {Origin(chat_memory[j]) : j \in Conversational(chat_memory)}
                = UNION {{e, e + 1} :
                            e \in StatedKept(rcall.messages,
                                             rcall.aggressive)}
           /\ \A i, j \in Conversational(chat_memory) :
                i < j => Origin(chat_memory[i]) < Origin(chat_memory[j])

\* ---------------------------------------------------------- tokenization.py
\* The texts counted: up to MaxChars characters; the exact tokenizer yields
\* between one token and one token per character for a text that is not
\* empty.
MaxChars == 16

TokenInit ==
    /\ RequestIdle
    /\ PoolIdle
    /\ CacheIdle
    /\ MemoryIdle
    /\ ServiceIdle
    /\ chat_memory = <<>>
    /\ max_token_limit = 0
    /\ tokens_saved = 0
    /\ \E n \in 0..MaxChars, tokenizer \in Tokenizers :
        \E encoded \in IF tokenizer = "exact" /\ n > 0 THEN 1..n ELSE {0} :
            rcall = [op |-> "none", text |-> <<1, n>>,
                     tokenizer |-> tokenizer, encoded |-> encoded]

call_get_token_length ==
    /\ rcall.op = "none"
    /\ rcall' = [op |-> "get_token_length",
                 text |-> rcall.text,
                 tokenizer |-> rcall.tokenizer,
                 value |-> get_token_length_tiktoken(rcall.text,
                                rcall.tokenizer, rcall.encoded)]
    /\ UNCHANGED <<chat_memory, max_token_limit, tokens_saved, nonRedVars>>

SpecTokens == TokenInit /\ [][call_get_token_length]_vars

\* -------------------------------------- claims on concurrent materialization
\* get_conv_token_buffer_memory and the functions it calls are plain
\* functions without an await (lines 25, 83, 106, 114): under the
\* cooperative scheduling of the event loop a call runs from its lookup to
\* its insert without another call in between. Two callers in flight at the
\* same time are two calls in one order or the other.
SecondOfTwo(conversation_id, n) ==
    LET first == get_conv_token_buffer_memory(_memory_cache, memories,
                    SubSeq(conversation, 1, n), conversation_id)
    IN  [first |-> first,
         second |-> get_conv_token_buffer_memory(first.cache, first.heap,
                        SubSeq(conversation, 1, n), conversation_id)]

C37_IncrementalEqualsFromScratch ==
    materialized > 0
        => memories[memory].saved
                = process_from(SubSeq(conversation, 1, mcall.n), 0)

\* ----------------------------------------------- claims on tokenization.py
Counted == rcall.op = "get_token_length"

\* C34: the token counter returns an integer >= 0 for every text and 0 for
\* the empty text; when the exact tokenizer is unavailable or fails, the
\* count of a non-empty text is ceil(len(text) / 4) + 1.
C34_FallbackIsCeilingPlusOne ==
    Counted
        => /\ rcall.value \in Nat
           /\ rcall.text[2] = 0 => rcall.value = 0
           /\ (rcall.text[2] > 0 /\ rcall.tokenizer # "exact")
                => rcall.value = (rcall.text[2] + 3) \div 4 + 1

\* -------------------------------------------- claims on compression levels
IsMetaName(name) ==
    Len(name) > 5 /\ SubSeq(name, Len(name) - 4, Len(name)) = meta_key(<<>>)

\* C40: for every value written by set or multi_set, under every configured
\* compression level 1 to 9, the stored bytes start with 0x78 0x9c exactly
\* when the value was compressed, so that get and multi_get decompress
\* exactly the values that were compressed (and read every stored value
\* back).
C40_SentinelIffCompressed ==
    /\ \A name \in DOMAIN redis :
        ~IsMetaName(name)
            => (startswith(redis[name].value, Sentinel)
                    <=> redis[name].value.fmt = "zlib")
    /\ call.op \in {"get", "multi_get"} => result.status = "return"

\* ------------------------------------------------- claims on async_cache
\* C36: for a function wrapped by async_cache and called with a cache
\* service: once a call has completed, any later call producing the same
\* cache key within the TTL returns the stored result without invoking the
\* wrapped function again, whatever value the function returned; without a
\* cache service the function is invoked on every call and nothing is
\* cached.
C36_LaterCallsServedFromCache ==
    /\ \A i, j \in 1..Len(history) :
        (/\ i < j
         /\ history[i].cache_service
         /\ history[j].cache_service
         /\ history[i].key = history[j].key
         /\ history[j].at < history[i].at + _get_ttl(category))
            => ~history[j].invoked
    /\ \A j \in 1..Len(history) :
        ~history[j].cache_service
            => history[j].invoked /\ history[j].untouched

\* ---------------------------------------- claims on the buffered memory
\* The flushes made so far, and the last of them.
WritesSucceeded == \A k \in 1..Len(history) : history[k].reply = "ok"
LastFlush == history[Len(history)]
Flushed == Len(history') = Len(history) + 1

\* The pairs of a buffer.
PairsOf(pending_pairs) == {pending_pairs[k] : k \in 1..Len(pending_pairs)}

\* C33: for an OptimizedTokenBufferMemory with a cache service and a
\* conversation id whose cache writes succeed, save_context flushes the
\* pending buffer in one multi_set as soon as 3 pairs are pending: after any
\* sequence of save_context calls the buffer holds at most 2 pairs, and an
\* explicit flush empties it.
C33_FlushedAtThreePending ==
    /\ []((rcall.op = "save_context" /\ WritesSucceeded)
            => /\ Len(pending_operations) <= 2
               /\ stats.batch_operations = Len(history)
               /\ \A k \in 1..Len(history) :
                    \A i \in 1..Len(history[k].offered) :
                        _format_key(history[k].keys[i], <<"conversation">>)
                            \in DOMAIN redis)
    /\ [][(Flushed /\ LastFlush'.reply = "ok")
            => pending_operations' = <<>>]_vars

\* Three pairs were saved: the third save flushed all three in one multi_set.
C33_Witness ==
    /\ rcall.op = "save_context"
    /\ ncalls = 3
    /\ WritesSucceeded
    /\ Len(history) = 1
    /\ Len(history[1].offered) = 3
    /\ pending_operations = <<>>
    /\ stats.batch_operations = 1

\* C38: a pair leaves the pending buffer only through a flush whose
\* multi_set reported success: when the flush reports failure, the pending
\* buffer and the batch_operations counter are unchanged, so every buffered
\* pair is offered again by the next flush.
C38_PairsLeaveOnlyOnSuccess ==
    [][/\ (PairsOf(pending_operations) \ PairsOf(pending_operations') # {})
            => Flushed /\ LastFlush'.success
       /\ Flushed
            => /\ PairsOf(pending_operations)
                    \subseteq PairsOf(LastFlush'.offered)
               /\ ~LastFlush'.success
                    => /\ pending_operations' = LastFlush'.offered
                       /\ stats' = stats
                       /\ redis' = redis]_vars

\* A flush of three pairs failed; the next flush offered the same three
\* pairs again, succeeded and emptied the buffer.
C38_Witness ==
    /\ Len(history) = 2
    /\ ~history[1].success
    /\ Len(history[1].offered) = 3
    /\ history[2].offered = history[1].offered
    /\ history[2].success
    /\ pending_operations = <<>>
    /\ stats.batch_operations = 1

\* C39: across any sequence of flushes of one conversation by
\* OptimizedTokenBufferMemory (including two flushes that happen within the
\* same clock second), no two persisted pairs are written under the same
\* cache key, so no flush overwrites a pair written by an earlier flush.
C39_NoKeyWrittenTwice ==
    \A i, j \in 1..Len(history) :
        (i < j /\ history[i].success /\ history[j].success)
            => \A a \in 1..Len(history[i].keys),
                  b \in 1..Len(history[j].keys) :
                    history[i].keys[a] # history[j].keys[b]

\* --------------------------------------------- claims on batch_save_context
\* C32: batch_save_context called with k pairs writes k cache entries for
\* the conversation, one per pair under its own key
\* {conversation_id}:{sequence marker}, all issued in a single pipeline
\* execution; after it returns, each of the k pairs can be read back from
\* its own entry.
C32_OneEntryPerPair ==
    (call.op = "batch_save_context" /\ result.status = "return")
        => /\ Cardinality({call.keys[i] : i \in DOMAIN call.keys})
                = Len(call.chat_pairs)
           /\ \A i \in DOMAIN call.keys :
                /\ call.keys[i] \in DOMAIN redis
                /\ redis[call.keys[i]].value.text.data
                        = call.chat_pairs[i][2][1]

====
